---- MODULE Spec2Model ----
(***************************************************************************)
(* BankUserSentiment: the classification pipeline of src/data_processor.py *)
(* (DataProcessor) and the aggregation of src/insights_generator.py        *)
(* (InsightsGenerator) as a state machine.                                 *)
(*                                                                         *)
(* A text is a record [na, s]: na is pd.isna(text), s is str(text) as a    *)
(* sequence of one-character strings.  Scores are integers in 1/10000      *)
(* (VADER rounds its compound score to four decimals).                     *)
(***************************************************************************)
EXTENDS Integers, Sequences, FiniteSets, TLC

\* ------------------------------------------------------------------ bounds
\* Longest text, in vocabulary words, given to the text classifiers.
MaxWords == 3
\* Most rows of a batch handed to process_all_data.
MaxRows == 2
\* Most calls of one text classifier on the same text.
MaxCalls == 2
\* Most rows of a batch that is processed and then summarised.
MaxInsightRows == 3
\* Most calls of process_all_data on one batch.
MaxPasses == 2

\* ------------------------------------------------------------- text layer
UpperChars ==
    << "A","B","C","D","E","F","G","H","I","J","K","L","M",
       "N","O","P","Q","R","S","T","U","V","W","X","Y","Z" >>

LowerChars ==
    << "a","b","c","d","e","f","g","h","i","j","k","l","m",
       "n","o","p","q","r","s","t","u","v","w","x","y","z" >>

\* The characters str.strip() removes and the regex class \s accepts.
Whitespace == {" ", "\t", "\n"}

\* The lower-case letter of each upper-case letter.
LowerOf ==
    [ c \in { UpperChars[i] : i \in 1..Len(UpperChars) } |->
          LowerChars[CHOOSE i \in 1..Len(UpperChars) : UpperChars[i] = c] ]

\* str.lower() on one character.
LowerChar(c) == IF c \in DOMAIN LowerOf THEN LowerOf[c] ELSE c

\* str(text).lower()
str_lower(s) == [i \in 1..Len(s) |-> LowerChar(s[i])]

\* Python's  word in text  on strings: a contiguous occurrence.
Contains(s, word) ==
    \E i \in 1..(Len(s) - Len(word) + 1) :
        \A j \in 1..Len(word) : s[i + j - 1] = word[j]

\* any(word in s for word in words)
AnyIn(words, s) == \E k \in 1..Len(words) : Contains(s, words[k])

\* str(text).strip() == ''
StripIsEmpty(s) == \A i \in 1..Len(s) : s[i] \in Whitespace

\* pd.isna(text): a missing cell.
NaText == [na |-> TRUE, s |-> << >>]

Str(s) == [na |-> FALSE, s |-> s]

\* ---------------------------------------------------------- regex engine
\* A pattern is a sequence of elements [k, c, q]: k = "lit" accepts the
\* character c, k = "space" accepts \s; q is the quantifier: "1", "*", "?".
Lit(c) == [k |-> "lit", c |-> c, q |-> "1"]

Opt(c) == [k |-> "lit", c |-> c, q |-> "?"]

SpaceStar == [k |-> "space", c |-> " ", q |-> "*"]

LitSeq(w) == [i \in 1..Len(w) |-> Lit(w[i])]

Accepts(e, ch) == IF e.k = "space" THEN ch \in Whitespace ELSE ch = e.c

\* The number of consecutive characters from pos on that e accepts.
RECURSIVE RunLength(_, _, _)
RunLength(e, txt, pos) ==
    IF pos <= Len(txt) /\ Accepts(e, txt[pos])
    THEN 1 + RunLength(e, txt, pos + 1)
    ELSE 0

\* Backtracking match of pat[k..] at txt[pos..], in the regex engine's order
\* (greedy quantifiers first): the position after the match, 0 for no match.
RECURSIVE MatchEnd(_, _, _, _), StarTry(_, _, _, _, _)
MatchEnd(pat, k, txt, pos) ==
    IF k > Len(pat) THEN pos
    ELSE LET e == pat[k]
             hit == pos <= Len(txt) /\ Accepts(e, txt[pos])
         IN  CASE e.q = "1" ->
                    IF hit THEN MatchEnd(pat, k + 1, txt, pos + 1) ELSE 0
               [] e.q = "?" ->
                    LET with == IF hit THEN MatchEnd(pat, k + 1, txt, pos + 1) ELSE 0
                    IN  IF with # 0 THEN with ELSE MatchEnd(pat, k + 1, txt, pos)
               [] OTHER ->
                    StarTry(pat, k, txt, pos, RunLength(e, txt, pos))

StarTry(pat, k, txt, pos, n) ==
    LET r == MatchEnd(pat, k + 1, txt, pos + n)
    IN  IF r # 0 THEN r
        ELSE IF n = 0 THEN 0
        ELSE StarTry(pat, k, txt, pos, n - 1)

\* re.search(pattern, txt) is not None
re_search(pat, txt) == \E s \in 1..(Len(txt) + 1) : MatchEnd(pat, 1, txt, s) # 0

\* len(re.findall(pattern, txt)): leftmost non-overlapping matches from s on.
RECURSIVE FindAllFrom(_, _, _)
FindAllFrom(pat, txt, s) ==
    IF s > Len(txt) + 1 THEN 0
    ELSE LET e == MatchEnd(pat, 1, txt, s)
         IN  IF e = 0 THEN FindAllFrom(pat, txt, s + 1)
             ELSE 1 + FindAllFrom(pat, txt, IF e = s THEN s + 1 ELSE e)

re_findall_len(pat, txt) == FindAllFrom(pat, txt, 1)

\* ------------------------------------------------------- bank patterns
\* The keys of self.bank_patterns in the dict's (insertion) order.
BankOrder == << "prime_bank", "eastern_bank", "brac_bank", "city_bank", "dutch_bangla" >>

Banks == { BankOrder[i] : i \in 1..Len(BankOrder) }

w_prime == <<"p","r","i","m","e">>

w_bank == <<"b","a","n","k">>

\* self.bank_patterns: r'prime\s*bank', r'primebank', r'@primebank',
\* r'prime\s*b\.?' and the competitors' lists.
bank_patterns_table ==
    [ prime_bank |->
           << LitSeq(w_prime) \o <<SpaceStar>> \o LitSeq(w_bank),
              LitSeq(w_prime \o w_bank),
              LitSeq(<<"@">> \o w_prime \o w_bank),
              LitSeq(w_prime) \o <<SpaceStar, Lit("b"), Opt(".")>> >>,
      eastern_bank |->
           << LitSeq(<<"e","a","s","t","e","r","n">>) \o <<SpaceStar>> \o LitSeq(w_bank),
              LitSeq(<<"e","b","l">>),
              LitSeq(<<"@","e","a","s","t","e","r","n">> \o w_bank) >>,
      brac_bank |->
           << LitSeq(<<"b","r","a","c">>) \o <<SpaceStar>> \o LitSeq(w_bank),
              LitSeq(<<"@","b","r","a","c">> \o w_bank) >>,
      city_bank |->
           << LitSeq(<<"c","i","t","y">>) \o <<SpaceStar>> \o LitSeq(w_bank),
              LitSeq(<<"@","c","i","t","y">> \o w_bank) >>,
      dutch_bangla |->
           << LitSeq(<<"d","u","t","c","h">>) \o <<SpaceStar>>
                  \o LitSeq(<<"b","a","n","g","l","a">>),
              LitSeq(<<"d","b","b","l">>),
              LitSeq(<<"@","d","u","t","c","h","b","a","n","g","l","a">>) >> ]

\* self.bank_patterns[bank]
bank_patterns(bank) == bank_patterns_table[bank]

\* ScanPatterns without the break of line 95: the bank is appended once
\* per pattern found.
RECURSIVE ScanPatterns_nobreak(_, _, _)
ScanPatterns_nobreak(bank, k, text_lower) ==
    IF k > Len(bank_patterns(bank)) THEN << >>
    ELSE (IF re_search(bank_patterns(bank)[k], text_lower) THEN << bank >> ELSE << >>)
             \o ScanPatterns_nobreak(bank, k + 1, text_lower)

\* The inner loop of identify_bank over one bank's patterns, from pattern k:
\* the bank is appended at the first pattern found and the loop breaks.
RECURSIVE ScanPatterns(_, _, _)
ScanPatterns(bank, k, text_lower) ==
    IF k > Len(bank_patterns(bank)) THEN << >>
    ELSE IF re_search(bank_patterns(bank)[k], text_lower) THEN << bank >>
    ELSE ScanPatterns(bank, k + 1, text_lower)

\* The outer loop of identify_bank from the b-th bank on: mentioned_banks.
RECURSIVE ScanBanks(_, _)
ScanBanks(b, text_lower) ==
    IF b > Len(BankOrder) THEN << >>
    ELSE ScanPatterns(BankOrder[b], 1, text_lower) \o ScanBanks(b + 1, text_lower)

\* The result of identify_bank from its list of mentioned banks.
BankVerdict(mentioned_banks) ==
    IF mentioned_banks = << >> THEN [primary |-> "none", banks |-> << >>]
    ELSE IF Len(mentioned_banks) = 1
         THEN [primary |-> mentioned_banks[1], banks |-> mentioned_banks]
    ELSE [primary |-> "multiple", banks |-> mentioned_banks]

\* DataProcessor.identify_bank(text) -> (primary, mentioned_banks)
identify_bank(text) ==
    IF text.na THEN [primary |-> "none", banks |-> << >>]
    ELSE BankVerdict(ScanBanks(1, str_lower(text.s)))

\* SumMentions counting the matches of the bank's first pattern only.
SumMentions_first_pattern(bank, k, text_lower) ==
    re_findall_len(bank_patterns(bank)[1], text_lower)

\* The loop of count_bank_mentions from pattern k on: total_mentions.
RECURSIVE SumMentions(_, _, _)
SumMentions(bank, k, text_lower) ==
    IF k > Len(bank_patterns(bank)) THEN 0
    ELSE re_findall_len(bank_patterns(bank)[k], text_lower)
             + SumMentions(bank, k + 1, text_lower)

\* count_bank_mentions without the lower().
count_bank_mentions_case_sensitive(text, bank) ==
    IF text.na THEN 0
    ELSE IF bank \in Banks THEN SumMentions(bank, 1, text.s)
    ELSE 0

\* DataProcessor.count_bank_mentions(text, bank)
count_bank_mentions(text, bank) ==
    IF text.na THEN 0
    ELSE IF bank \in Banks THEN SumMentions(bank, 1, str_lower(text.s))
    ELSE 0

\* ------------------------------------------------------ sentiment engine
\* The compound score at and above which VADER's result is Positive, and at
\* and below whose negation it is Negative: 0.05, in 1/10000.
CompoundThreshold == 500

\* The list of analyze_sentiment's is_complaint test.
complaint_words ==
    << <<"c","o","m","p","l","a","i","n","t">>,
       <<"p","r","o","b","l","e","m">>,
       <<"i","s","s","u","e">>,
       <<"e","r","r","o","r">>,
       <<"f","a","i","l","e","d">>,
       <<"n","o","t"," ","w","o","r","k","i","n","g">>,
       <<"t","e","r","r","i","b","l","e">>,
       <<"w","o","r","s","t">>,
       <<"p","a","t","h","e","t","i","c">>,
       <<"d","i","s","a","p","p","o","i","n","t","e","d">> >>

\* Step 1 of analyze_sentiment: the label of a compound score.
vader_sentiment(compound) ==
    IF compound >= CompoundThreshold THEN "Positive"
    ELSE IF compound <= -CompoundThreshold THEN "Negative"
    ELSE "Neutral"

\* Step 1 of analyze_sentiment: (vader_sentiment, vader_polarity); self.sia is
\* None when the lexicon scorer could not be constructed.
Baseline(sia, compound) ==
    IF sia THEN [label |-> vader_sentiment(compound), score |-> compound]
    ELSE [label |-> "Neutral", score |-> 0]

is_complaint(s) == AnyIn(complaint_words, str_lower(s))

\* gpt_triggered without the Neutral trigger.
gpt_triggered_complaint_only(gpt, s, base) == gpt /\ is_complaint(s)

\* The condition of step 2: whether the backend is asked.
gpt_triggered(gpt, s, base) == gpt /\ (is_complaint(s) \/ base.label = "Neutral")

\* Python's float(x) on a JSON value x = [t, v]: a number or a numeric string
\* converts, any other string raises ValueError, null raises TypeError.
py_float(x) ==
    CASE x.t = "num" -> [ok |-> TRUE, v |-> x.v]
      [] x.t = "numstr" -> [ok |-> TRUE, v |-> x.v]
      [] OTHER -> [ok |-> FALSE, v |-> 0]

\* result.get(key, default) on the parsed payload.
payload_sentiment(p) == IF p.has_s THEN p.s ELSE "Neutral"

payload_polarity(p) == IF p.has_p THEN p.p ELSE [t |-> "num", v |-> 0]

\* gpt_result whose except branch returns the initial values of line 132-133
\* instead of the lexicon's result.
gpt_result_neutral_fallback(reply, base) ==
    IF reply.kind = "json"
    THEN LET f == py_float(payload_polarity(reply.payload))
         IN  IF f.ok
             THEN [label |-> payload_sentiment(reply.payload), score |-> f.v]
             ELSE [label |-> "Neutral", score |-> 0]
    ELSE [label |-> "Neutral", score |-> 0]

\* The try/except of step 2 once the backend call is over: reply.kind is
\* "error" (create() raised), "text" (the content is not JSON), "nonobject"
\* (JSON, but no dict) or "json" (a dict, reply.payload).
gpt_result(reply, base) ==
    IF reply.kind = "json"
    THEN LET f == py_float(payload_polarity(reply.payload))
         IN  IF f.ok
             THEN [label |-> payload_sentiment(reply.payload), score |-> f.v]
             ELSE base
    ELSE base

\* --------------------------------------------------- emotion classifier
Joy_keywords ==
    << <<"h","a","p","p","y">>,
       <<"e","x","c","e","l","l","e","n","t">>,
       <<"a","m","a","z","i","n","g">>,
       <<"g","r","e","a","t">>,
       <<"w","o","n","d","e","r","f","u","l">>,
       <<"f","a","n","t","a","s","t","i","c">>,
       <<"l","o","v","e">>,
       <<"b","e","s","t">>,
       <<"t","h","a","n","k"," ","y","o","u">>,
       <<"a","p","p","r","e","c","i","a","t","e">> >>

Frustration_keywords ==
    << <<"f","r","u","s","t","r","a","t","e","d">>,
       <<"a","n","g","r","y">>,
       <<"t","e","r","r","i","b","l","e">>,
       <<"h","o","r","r","i","b","l","e">>,
       <<"w","o","r","s","t">>,
       <<"h","a","t","e">>,
       <<"a","n","n","o","y","e","d">>,
       <<"d","i","s","a","p","p","o","i","n","t","e","d">>,
       <<"p","a","t","h","e","t","i","c">> >>

Confusion_keywords ==
    << <<"c","o","n","f","u","s","e","d">>,
       <<"u","n","c","l","e","a","r">>,
       <<"d","o","n","'","t"," ","u","n","d","e","r","s","t","a","n","d">>,
       <<"w","h","a","t">>,
       <<"h","o","w">>,
       <<"w","h","y">>,
       <<"?">>,
       <<"h","e","l","p"," ","m","e">>,
       <<"l","o","s","t">> >>

Anxiety_keywords ==
    << <<"w","o","r","r","i","e","d">>,
       <<"c","o","n","c","e","r","n">>,
       <<"a","n","x","i","o","u","s">>,
       <<"n","e","r","v","o","u","s">>,
       <<"s","c","a","r","e","d">>,
       <<"f","e","a","r">>,
       <<"p","a","n","i","c">>,
       <<"u","r","g","e","n","t">> >>

\* The keys of detect_emotion's emotions dict, in its order.
EmotionOrder == << "Joy", "Frustration", "Confusion", "Anxiety" >>

emotion_keywords(emotion) ==
    CASE emotion = "Joy" -> Joy_keywords
      [] emotion = "Frustration" -> Frustration_keywords
      [] emotion = "Confusion" -> Confusion_keywords
      [] OTHER -> Anxiety_keywords

\* keywords_found = [kw for kw in data['keywords'] if kw in text_lower]
keywords_found(emotion, text_lower) ==
    SelectSeq(emotion_keywords(emotion), LAMBDA kw : Contains(text_lower, kw))

\* emotion_scores and detected_keywords after the loop of lines 189-194,
\* indexed like EmotionOrder.
emotion_table(text_lower) ==
    [ i \in 1..Len(EmotionOrder) |-> keywords_found(EmotionOrder[i], text_lower) ]

\* primary_emotion taking the last key with the largest score.
primary_emotion_last(found) ==
    CHOOSE i \in 1..Len(found) :
        /\ \A j \in 1..Len(found) : Len(found[j]) <= Len(found[i])
        /\ \A j \in (i + 1)..Len(found) : Len(found[j]) < Len(found[i])

\* max(emotion_scores, key=emotion_scores.get): the first key, in the dict's
\* order, whose score is the largest.
primary_emotion(found) ==
    CHOOSE i \in 1..Len(found) :
        /\ \A j \in 1..Len(found) : Len(found[j]) <= Len(found[i])
        /\ \A j \in 1..(i - 1) : Len(found[j]) < Len(found[i])

\* detect_emotion returning the keywords found of every emotion.
detect_emotion_all_keywords(text) ==
    IF text.na THEN [emotion |-> "Neutral", keywords |-> << >>]
    ELSE LET found == emotion_table(str_lower(text.s))
             best == primary_emotion(found)
         IN  IF \E i \in 1..Len(found) : Len(found[i]) > 0
             THEN [emotion |-> EmotionOrder[best],
                   keywords |-> found[1] \o found[2] \o found[3] \o found[4]]
             ELSE [emotion |-> "Neutral", keywords |-> << >>]

\* DataProcessor.detect_emotion(text) -> (emotion, keywords)
detect_emotion(text) ==
    IF text.na THEN [emotion |-> "Neutral", keywords |-> << >>]
    ELSE LET found == emotion_table(str_lower(text.s))
             best == primary_emotion(found)
         IN  IF \E i \in 1..Len(found) : Len(found[i]) > 0
             THEN [emotion |-> EmotionOrder[best], keywords |-> found[best]]
             ELSE [emotion |-> "Neutral", keywords |-> << >>]

\* -------------------------------------------------- category classifier
inquiry_phrases ==
    << <<"h","o","w"," ","d","o">>,
       <<"w","h","a","t"," ","i","s">>,
       <<"w","h","e","n">>,
       <<"w","h","e","r","e">>,
       <<"c","a","n"," ","i">>,
       <<"c","o","u","l","d"," ","y","o","u">>,
       <<"e","x","p","l","a","i","n">> >>

complaint_category_words ==
    << <<"c","o","m","p","l","a","i","n","t">>,
       <<"p","r","o","b","l","e","m">>,
       <<"i","s","s","u","e">>,
       <<"e","r","r","o","r">>,
       <<"f","a","i","l","e","d">>,
       <<"n","o","t"," ","w","o","r","k","i","n","g">>,
       <<"t","e","r","r","i","b","l","e">>,
       <<"w","o","r","s","t">> >>

praise_words ==
    << <<"t","h","a","n","k">>,
       <<"g","r","e","a","t">>,
       <<"e","x","c","e","l","l","e","n","t">>,
       <<"l","o","v","e">>,
       <<"b","e","s","t">>,
       <<"a","p","p","r","e","c","i","a","t","e">>,
       <<"a","m","a","z","i","n","g">> >>

suggestion_words ==
    << <<"s","u","g","g","e","s","t">>,
       <<"s","h","o","u","l","d">>,
       <<"c","o","u","l","d">>,
       <<"r","e","c","o","m","m","e","n","d">>,
       <<"r","e","q","u","e","s","t">>,
       <<"p","l","e","a","s","e"," ","a","d","d">> >>

\* categorize_post with the complaint test ahead of the question test.
categorize_post_complaint_first(text) ==
    IF text.na THEN [category |-> "Other", reason |-> "No text content"]
    ELSE LET text_lower == str_lower(text.s)
         IN  IF AnyIn(complaint_category_words, text_lower)
             THEN [category |-> "Complaint",
                   reason |-> "Contains complaint or problem description"]
             ELSE IF Contains(text_lower, <<"?">>) \/ AnyIn(inquiry_phrases, text_lower)
             THEN [category |-> "Inquiry",
                   reason |-> "Contains questions or information seeking"]
             ELSE IF AnyIn(praise_words, text_lower)
             THEN [category |-> "Praise",
                   reason |-> "Contains positive feedback or appreciation"]
             ELSE IF AnyIn(suggestion_words, text_lower)
             THEN [category |-> "Suggestion",
                   reason |-> "Contains suggestions or feature requests"]
             ELSE [category |-> "Other",
                   reason |-> "General discussion or observation"]

\* DataProcessor.categorize_post(text) -> (category, reason)
categorize_post(text) ==
    IF text.na THEN [category |-> "Other", reason |-> "No text content"]
    ELSE LET text_lower == str_lower(text.s)
         IN  IF Contains(text_lower, <<"?">>) \/ AnyIn(inquiry_phrases, text_lower)
             THEN [category |-> "Inquiry",
                   reason |-> "Contains questions or information seeking"]
             ELSE IF AnyIn(complaint_category_words, text_lower)
             THEN [category |-> "Complaint",
                   reason |-> "Contains complaint or problem description"]
             ELSE IF AnyIn(praise_words, text_lower)
             THEN [category |-> "Praise",
                   reason |-> "Contains positive feedback or appreciation"]
             ELSE IF AnyIn(suggestion_words, text_lower)
             THEN [category |-> "Suggestion",
                   reason |-> "Contains suggestions or feature requests"]
             ELSE [category |-> "Other",
                   reason |-> "General discussion or observation"]

\* ------------------------------------------------------ virality scorer
\* Scores are in 1/100.  df[col].fillna(0) on one cell; a missing cell is
\* the record [null |-> TRUE].
fillna0(cell) == IF cell.null THEN 0 ELSE cell.v

\* viral_reset keeping the score the column held.
viral_reset_keep(score) == score

\* df['viral_score'] = 0, whatever the column held.
viral_reset(score) == 0

\* viral_base with every counter weighted 1.
viral_base_equal_weights(columns, row) ==
    (IF "likes" \in columns THEN 100 * fillna0(row.likes) ELSE 0)
    + (IF "shares" \in columns THEN 100 * fillna0(row.shares) ELSE 0)
    + (IF "comments" \in columns THEN 100 * fillna0(row.comments) ELSE 0)

\* viral_base with the shares subtracted.
viral_base_shares_subtracted(columns, row) ==
    (IF "likes" \in columns THEN 100 * fillna0(row.likes) ELSE 0)
    - (IF "shares" \in columns THEN 100 * fillna0(row.shares) * 2 ELSE 0)
    + (IF "comments" \in columns THEN 150 * fillna0(row.comments) ELSE 0)

\* Lines 245-251 for one row: the sum over the engagement columns the batch
\* has (columns is the set of the batch's column names).
viral_base(columns, row) ==
    (IF "likes" \in columns THEN 100 * fillna0(row.likes) ELSE 0)
    + (IF "shares" \in columns THEN 100 * fillna0(row.shares) * 2 ELSE 0)
    + (IF "comments" \in columns THEN 150 * fillna0(row.comments) ELSE 0)

\* viral_boost applied once per mention of the brand.
RECURSIVE viral_boost_per_mention(_, _)
viral_boost_per_mention(score, prime_mentions) ==
    IF prime_mentions > 0
    THEN viral_boost_per_mention((score * 12) \div 10, prime_mentions - 1)
    ELSE score

\* Lines 253-254 for one row: the boost of the rows that mention the brand.
viral_boost(score, prime_mentions) ==
    IF prime_mentions > 0 THEN (score * 12) \div 10 ELSE score

\* ------------------------------------------------------ insight generator
\* src/insights_generator.py.  A table is [has_cols, rows]: has_cols says
\* whether it has the columns process_all_data adds; a row is [text,
\* sentiment, emotion, emotion_keywords, category, primary_bank].

\* The number of rows that carry label l in column col.
CountLabel(rows, col, l) == Cardinality({ i \in 1..Len(rows) : rows[i][col] = l })

\* f"{x:.1f}" of x = c / n * 100, in tenths of a percent.
Tenths(c, n) == (2000 * c + n) \div (2 * n)

\* The n of Series.head(n) in the example selection.
ExampleCap == 2

\* Series.head(n).tolist()
head(s, n) == SubSeq(s, 1, IF Len(s) < n THEN Len(s) ELSE n)

\* df[df[col] == l]['text'] as a list, in the table's order.
TextsOf(rows, col, l) ==
    LET sel == SelectSeq(rows, LAMBDA r : r[col] = l)
    IN  [i \in 1..Len(sel) |-> sel[i].text]

\* str(text) of a cell of the text column.
astype_str(text) == IF text.na THEN <<"n","a","n">> ELSE text.s

\* ' '.join(texts.astype(str).tolist()).lower()
RECURSIVE JoinLower(_)
JoinLower(texts) ==
    IF texts = << >> THEN << >>
    ELSE IF Len(texts) = 1 THEN str_lower(astype_str(texts[1]))
    ELSE str_lower(astype_str(texts[1])) \o <<" ">> \o JoinLower(Tail(texts))

\* Lines 56-66: the themes found in the negative texts, in the order tested.
negative_themes(negative_posts) ==
    IF negative_posts = << >> THEN << >>
    ELSE LET t == JoinLower(negative_posts)
             has(a, b) == Contains(t, a) \/ Contains(t, b)
         IN  (IF has(<<"w","a","i","t">>, <<"q","u","e","u","e">>)
                 THEN << "long wait times" >> ELSE << >>)
             \o (IF has(<<"f","e","e">>, <<"c","h","a","r","g","e">>)
                 THEN << "fees and charges" >> ELSE << >>)
             \o (IF has(<<"a","p","p">>, <<"o","n","l","i","n","e">>)
                 THEN << "digital banking issues" >> ELSE << >>)
             \o (IF has(<<"s","t","a","f","f">>, <<"s","e","r","v","i","c","e">>)
                 THEN << "customer service" >> ELSE << >>)

SentimentLabels == << "Positive", "Negative", "Neutral" >>

\* sentiment_examples with head taking the last n texts.
sentiment_examples_last(rows) ==
    [ l \in { SentimentLabels[i] : i \in 1..3 } |->
          LET t == TextsOf(rows, "sentiment", l)
          IN  SubSeq(t, IF Len(t) > ExampleCap THEN Len(t) - ExampleCap + 1 ELSE 1, Len(t)) ]

\* Lines 49-52: per label, the first two texts of the table carrying it.
sentiment_examples(rows) ==
    [ l \in { SentimentLabels[i] : i \in 1..3 } |->
          head(TextsOf(rows, "sentiment", l), ExampleCap) ]

\* InsightsGenerator._generate_sentiment_insights(df).  summary holds the
\* three percentages its string prints (also printed by the three context
\* strings), negative_theme what negative_context prints after
\* "mainly complain about:" (line 71): the themes, or a fixed phrase.
generate_sentiment_insights(rows) ==
    IF Len(rows) = 0
    THEN [summary |-> "No Prime Bank posts found for sentiment analysis."]
    ELSE [summary |->
              [ l \in { SentimentLabels[i] : i \in 1..3 } |->
                    Tenths(CountLabel(rows, "sentiment", l), Len(rows)) ],
          negative_theme |->
              IF negative_themes(TextsOf(rows, "sentiment", "Negative")) = << >>
              THEN "various service issues"
              ELSE negative_themes(TextsOf(rows, "sentiment", "Negative")),
          examples |-> sentiment_examples(rows),
          concern_areas |-> negative_themes(TextsOf(rows, "sentiment", "Negative"))]

\* df[col].value_counts(): the count of every label present.
value_counts(rows, col) ==
    [ l \in { rows[i][col] : i \in 1..Len(rows) } |-> CountLabel(rows, col, l) ]

\* TopLabels taking the labels with the smallest count.
TopLabels_ascending(rows, col) ==
    { l \in DOMAIN value_counts(rows, col) :
        \A m \in DOMAIN value_counts(rows, col) :
            value_counts(rows, col)[m] >= value_counts(rows, col)[l] }

\* The labels value_counts() may list first: those with the largest count
\* (the order among equal counts is the sort's).
TopLabels(rows, col) ==
    { l \in DOMAIN value_counts(rows, col) :
        \A m \in DOMAIN value_counts(rows, col) :
            value_counts(rows, col)[m] <= value_counts(rows, col)[l] }

\* InsightsGenerator._get_emotion_recommendation, given emotion_dist.index[0].
get_emotion_recommendation(top_emotion) ==
    CASE top_emotion = "Joy" ->
           "Leverage positive emotions by encouraging happy customers to share testimonials"
      [] top_emotion = "Frustration" ->
           "Implement rapid response protocol for frustrated customers to prevent escalation"
      [] top_emotion = "Confusion" ->
           "Create clearer communication materials and improve customer education"
      [] top_emotion = "Anxiety" ->
           "Provide reassurance through proactive communication about security and processes"
      [] top_emotion = "Neutral" ->
           "Engage neutral customers with targeted campaigns to create"
      [] OTHER -> "Monitor customer emotions closely"

\* InsightsGenerator._generate_emotion_insights(df), top being the label
\* value_counts() lists first.  summary holds the two counts and the
\* percentage its string prints; the static contexts and the keyword
\* ranking are left out.
generate_emotion_insights(rows, top) ==
    IF Len(rows) = 0
    THEN [summary |-> "No Prime Bank posts found for emotion analysis."]
    ELSE LET total_emotional == Len(rows) - CountLabel(rows, "emotion", "Neutral")
         IN  [summary |-> [emotional |-> total_emotional, of |-> Len(rows),
                           pct |-> Tenths(total_emotional, Len(rows))],
              distribution |-> value_counts(rows, "emotion"),
              top_emotion |-> top,
              recommendation |-> get_emotion_recommendation(top)]

\* InsightsGenerator._generate_category_insights(df).  summary holds the
\* counts its string lists; the static details are left out.
generate_category_insights(rows) ==
    IF Len(rows) = 0
    THEN [summary |-> "No Prime Bank posts found for category analysis."]
    ELSE LET category_dist == value_counts(rows, "category")
             get(l) == IF l \in DOMAIN category_dist THEN category_dist[l] ELSE 0
         IN  [summary |-> category_dist,
              urgent_attention |-> get("Complaint"),
              opportunities |-> get("Suggestion")]

\* The topics dict of _generate_topic_insights, in its order.
topics ==
    << [topic |-> "Digital Banking",
        keywords |-> << <<"a","p","p">>, <<"o","n","l","i","n","e">>, <<"m","o","b","i","l","e">>, <<"w","e","b","s","i","t","e">>, <<"i","n","t","e","r","n","e","t"," ","b","a","n","k","i","n","g">> >>],
       [topic |-> "Customer Service",
        keywords |-> << <<"s","t","a","f","f">>, <<"s","e","r","v","i","c","e">>, <<"h","e","l","p">>, <<"s","u","p","p","o","r","t">>, <<"e","m","p","l","o","y","e","e">> >>],
       [topic |-> "Fees & Charges",
        keywords |-> << <<"f","e","e">>, <<"c","h","a","r","g","e">>, <<"c","o","s","t">>, <<"e","x","p","e","n","s","i","v","e">>, <<"p","r","i","c","e">> >>],
       [topic |-> "Loans",
        keywords |-> << <<"l","o","a","n">>, <<"c","r","e","d","i","t">>, <<"m","o","r","t","g","a","g","e">>, <<"i","n","t","e","r","e","s","t">>, <<"e","m","i">> >>],
       [topic |-> "ATM & Branch",
        keywords |-> << <<"a","t","m">>, <<"b","r","a","n","c","h">>, <<"l","o","c","a","t","i","o","n">>, <<"m","a","c","h","i","n","e">>, <<"c","a","s","h">> >>],
       [topic |-> "Account Services",
        keywords |-> << <<"a","c","c","o","u","n","t">>, <<"s","a","v","i","n","g","s">>, <<"c","u","r","r","e","n","t">>, <<"b","a","l","a","n","c","e">>, <<"s","t","a","t","e","m","e","n","t">> >>] >>

\* Lines 171-175: per topic, the number of its keywords found in all_text.
topic_count(k, all_text) ==
    Cardinality({ j \in 1..Len(topics[k].keywords) :
                    Contains(all_text, topics[k].keywords[j]) })

\* InsightsGenerator._generate_topic_insights(df): all_topics, and trending,
\* the first of sorted(..., reverse=True): sorted is stable, so among the
\* topics with the largest count it is the first of the dict.
generate_topic_insights(rows) ==
    IF Len(rows) = 0
    THEN [summary |-> "No Prime Bank posts found for topic analysis."]
    ELSE LET all_text == JoinLower([i \in 1..Len(rows) |-> rows[i].text])
             cnt == [k \in 1..Len(topics) |-> topic_count(k, all_text)]
             found == { k \in 1..Len(topics) : cnt[k] > 0 }
         IN  [all_topics |-> [t \in { topics[k].topic : k \in found } |->
                                  cnt[CHOOSE k \in found : topics[k].topic = t]],
              trending |->
                  IF found = {} THEN "None"
                  ELSE topics[CHOOSE k \in found :
                                 /\ \A j \in found : cnt[j] <= cnt[k]
                                 /\ \A j \in found : j < k => cnt[j] < cnt[k]].topic]

\* Lines 190-199: per bank with posts, the number of posts and of positive
\* ones (positive_rate is positive / posts * 100).
bank_sentiment(rows) ==
    [ b \in { bank \in Banks : CountLabel(rows, "primary_bank", bank) > 0 } |->
          [posts |-> CountLabel(rows, "primary_bank", b),
           positive |-> Cardinality({ i \in 1..Len(rows) :
                            rows[i].primary_bank = b /\ rows[i].sentiment = "Positive" })] ]

\* InsightsGenerator._generate_comparison_insights(df), for a table that has
\* the column primary_bank: prime_positive > 50 is 2 * positive > posts.
generate_comparison_insights(rows) ==
    LET bs == bank_sentiment(rows)
    IN  IF "prime_bank" \in DOMAIN bs
        THEN [summary |-> [prime_positive |-> Tenths(bs["prime_bank"].positive,
                                                     bs["prime_bank"].posts),
                           comparison |-> IF 2 * bs["prime_bank"].positive > bs["prime_bank"].posts
                                          THEN "above average" ELSE "below average"],
              comparison |-> bs,
              recommendation |->
                  IF 2 * bs["prime_bank"].positive > bs["prime_bank"].posts
                  THEN "Focus on maintaining positive momentum"
                  ELSE "Urgent improvement needed to match competitor satisfaction levels"]
        ELSE [summary |-> "No comparative data available."]

\* generate_action_insights counting every Negative row as immediate.
generate_action_insights_negative_only(rows) ==
    IF Len(rows) = 0
    THEN [summary |-> "No Prime Bank posts found for action analysis."]
    ELSE [immediate |->
              Cardinality({ i \in 1..Len(rows) : rows[i].sentiment = "Negative" }),
          quick_wins |->
              Cardinality({ i \in 1..Len(rows) :
                  rows[i].sentiment = "Positive" /\ rows[i].category = "Praise" })]

\* InsightsGenerator._generate_action_insights(df): the two counts.
generate_action_insights(rows) ==
    IF Len(rows) = 0
    THEN [summary |-> "No Prime Bank posts found for action analysis."]
    ELSE [immediate |->
              Cardinality({ i \in 1..Len(rows) :
                  /\ rows[i].sentiment = "Negative"
                  /\ rows[i].emotion \in {"Frustration", "Anxiety"}
                  /\ rows[i].category = "Complaint" }),
          quick_wins |->
              Cardinality({ i \in 1..Len(rows) :
                  rows[i].sentiment = "Positive" /\ rows[i].category = "Praise" })]

\* Lines 12-19: the numbers of the overview.
overview(df, prime_df) ==
    [total_posts |-> Len(df.rows), prime_posts |-> Len(prime_df.rows),
     prime_percentage |-> IF Len(df.rows) > 0
                          THEN Tenths(Len(prime_df.rows), Len(df.rows)) ELSE 0]

\* InsightsGenerator.generate_all_insights(df, prime_df) on self.insights:
\* the keys are assigned in the order of lines 16-37.  A helper given rows
\* indexes the added columns (KeyError without them); the comparison indexes
\* df['primary_bank'] whatever the number of rows (line 193).  What was
\* assigned before an exception stays in self.insights.
generate_all_insights(insights, df, prime_df, top) ==
    IF Len(prime_df.rows) > 0 /\ ~prime_df.has_cols
    THEN [state |-> "KeyError",
          insights |-> ("overview" :> overview(df, prime_df)) @@ insights]
    ELSE LET upto_topics ==
                 ("overview" :> overview(df, prime_df))
                 @@ ("sentiment" :> generate_sentiment_insights(prime_df.rows))
                 @@ ("emotion" :> generate_emotion_insights(prime_df.rows, top))
                 @@ ("category" :> generate_category_insights(prime_df.rows))
                 @@ ("topics" :> generate_topic_insights(prime_df.rows))
         IN  IF ~df.has_cols
             THEN [state |-> "KeyError", insights |-> upto_topics @@ insights]
             ELSE [state |-> "returned",
                   insights |->
                       upto_topics
                       @@ ("comparison" :> generate_comparison_insights(df.rows))
                       @@ ("actions" :> generate_action_insights(prime_df.rows))
                       @@ insights]

\* ---------------------------------------------------------------- inputs
\* The words the generated texts are concatenations of.
LexVocab ==
    { <<"P","r","i","m","e">>, <<"B","a","n","k">>, <<" ">>, <<"b",".">>, <<"@">>,
      <<"E","B","L">>, <<"c","i","t","y">>, <<"a","p","p">> }

\* Every concatenation of at most n words of LexVocab.
RECURSIVE WordTexts(_)
WordTexts(n) ==
    IF n = 0 THEN { << >> }
    ELSE WordTexts(n - 1) \cup { t \o w : t \in WordTexts(n - 1), w \in LexVocab }

\* The words the texts of the emotion and category classifiers are made of.
ClassVocab ==
    { <<"?">>,
      <<"H","o","w"," ","d","o">>,
      <<"p","r","o","b","l","e","m">>,
      <<"T","e","r","r","i","b","l","e">>,
      <<"g","r","e","a","t">>,
      <<"T","h","a","n","k"," ","y","o","u">>,
      <<"s","h","o","u","l","d">>,
      <<"c","o","u","l","d"," ","y","o","u">>,
      <<"w","o","r","r","i","e","d">>,
      <<" ">> }

\* Every concatenation of at most n words of ClassVocab.
RECURSIVE ClassWordTexts(_)
ClassWordTexts(n) ==
    IF n = 0 THEN { << >> }
    ELSE ClassWordTexts(n - 1)
             \cup { t \o w : t \in ClassWordTexts(n - 1), w \in ClassVocab }

\* The texts given to detect_emotion and categorize_post.
ClassTexts == { NaText } \cup { Str(s) : s \in ClassWordTexts(MaxWords) }

\* The texts given to the text classifiers: a missing cell and the generated.
LexTexts == { NaText } \cup { Str(s) : s \in WordTexts(MaxWords) }

\* The compound scores the lexicon scorer may return for a text: the ends
\* of its range, both thresholds and their neighbours, and 0.
Compounds == { -10000, -500, -499, 0, 499, 500, 10000 }

\* JSON values of the payload's "polarity".
Polarities ==
    { [t |-> "num", v |-> -8000], [t |-> "num", v |-> 0], [t |-> "num", v |-> 10000],
      [t |-> "num", v |-> 25000], [t |-> "numstr", v |-> 3000],
      [t |-> "badstr", v |-> 0], [t |-> "null", v |-> 0] }

\* JSON values of the payload's "sentiment".
PayloadSentiments == { "Positive", "Negative", "Neutral", "Mixed" }

NoPayload == [has_s |-> FALSE, s |-> "", has_p |-> FALSE, p |-> [t |-> "null", v |-> 0]]

Payloads ==
    { [has_s |-> TRUE, s |-> s, has_p |-> TRUE, p |-> p] :
          s \in PayloadSentiments, p \in Polarities }
    \cup { [has_s |-> FALSE, s |-> "", has_p |-> TRUE, p |-> p] : p \in Polarities }
    \cup { [has_s |-> TRUE, s |-> s, has_p |-> FALSE, p |-> [t |-> "null", v |-> 0]] :
               s \in PayloadSentiments }
    \cup { NoPayload }

\* How a backend call can end: create() raises, the answer is text that is
\* no JSON, JSON that is no object, or a JSON object.
Replies ==
    { [kind |-> k, payload |-> NoPayload] : k \in {"error", "text", "nonobject"} }
    \cup { [kind |-> "json", payload |-> p] : p \in Payloads }

\* The reply logged for a call the backend has not (or not yet) ended.
NoReply == [kind |-> "none", payload |-> NoPayload]

\* The constructor's argument, the two import flags of the module, and
\* whether SentimentIntensityAnalyzer() constructs (it raises without its
\* lexicon file).
Configs ==
    [ openai_api_key : {"None", "", "sk-key"},
      OPENAI_AVAILABLE : BOOLEAN,
      NLTK_AVAILABLE : BOOLEAN,
      SIA_CONSTRUCTS : BOOLEAN ]

Cell(v) == [null |-> FALSE, v |-> v]

NullCell == [null |-> TRUE, v |-> 0]

\* The texts of the single-call specification.
SentTexts ==
    { NaText, Str(<< >>), Str(<<" ">>), Str(<<" ", "\t">>),
      Str(<<"o","k">>),
      Str(<<"P","r","o","b","l","e","m">>),
      Str(<<" ","N","o","t"," ","w","o","r","k","i","n","g"," ">>),
      Str(<<"n","o","t","w","o","r","k","i","n","g">>) }

\* The rows of the batch specification: text and engagement counters.
BatchRows ==
    { [text |-> NaText, likes |-> Cell(1), shares |-> NullCell, comments |-> Cell(0)],
      [text |-> Str(<<"P","r","i","m","e"," ","B","a","n","k"," ",
                      "p","r","o","b","l","e","m">>),
       likes |-> Cell(10), shares |-> Cell(1), comments |-> Cell(2)],
      [text |-> Str(<<"E","B","L"," ","g","r","e","a","t">>),
       likes |-> Cell(5), shares |-> Cell(0), comments |-> NullCell],
      [text |-> Str(<<"P","r","i","m","e"," ","b","."," ","o","r"," ","D","B","B","L","?">>),
       likes |-> Cell(0), shares |-> Cell(3), comments |-> Cell(1)],
      [text |-> Str(<<"o","k">>),
       likes |-> NullCell, shares |-> Cell(2), comments |-> Cell(1)] }

BatchCompounds == { -4019, 0, 6249 }

BatchReplies ==
    { [kind |-> "error", payload |-> NoPayload],
      [kind |-> "json",
       payload |-> [has_s |-> TRUE, s |-> "Negative",
                    has_p |-> TRUE, p |-> [t |-> "num", v |-> -8000]]],
      [kind |-> "json",
       payload |-> [has_s |-> FALSE, s |-> "",
                    has_p |-> TRUE, p |-> [t |-> "num", v |-> 10000]]] }

\* The configurations of the batch specification: with and without a key.
BatchConfigs ==
    { c \in Configs : /\ c.openai_api_key # "" /\ c.OPENAI_AVAILABLE
                       /\ c.NLTK_AVAILABLE /\ c.SIA_CONSTRUCTS }

\* The engagement columns a batch may have.
ColumnSets == { {}, {"likes", "shares", "comments"} }

\* The texts of the virality specification: no mention of the brand, one
\* (r'prime\s*b\.?' alone), three (three patterns match 'PrimeBank').
ViralTexts ==
    { Str(<<"o","k">>), Str(<<"P","r","i","m","e"," ","b",".">>),
      Str(<<"P","r","i","m","e","B","a","n","k">>) }

\* The cells of an engagement column: a missing value and counts.
EngagementCells == { NullCell, Cell(0), Cell(3) }

ViralRows ==
    [ text : ViralTexts, likes : EngagementCells,
      shares : EngagementCells, comments : EngagementCells ]

\* The rows that differ from row r in the text only or in one counter only.
Neighbours(r) ==
    { [r EXCEPT !.text = t] : t \in ViralTexts \ {r.text} }
    \cup { [r EXCEPT !.likes = c] : c \in EngagementCells \ {r.likes} }
    \cup { [r EXCEPT !.shares = c] : c \in EngagementCells \ {r.shares} }
    \cup { [r EXCEPT !.comments = c] : c \in EngagementCells \ {r.comments} }

\* The batches of the virality specification: one row, or a row and one of
\* its neighbours.
ViralBatches ==
    { << r >> : r \in ViralRows }
    \cup UNION { { << r, n >> : n \in Neighbours(r) } : r \in ViralRows }

\* The rows of the insight specification.
InsightRows ==
    { [text |-> Str(<<"P","r","i","m","e"," ","B","a","n","k"," ","a","p","p"," ","w","o","r","s","t">>),
       likes |-> NullCell, shares |-> NullCell, comments |-> NullCell],
      [text |-> Str(<<"E","B","L"," ","g","r","e","a","t">>),
       likes |-> NullCell, shares |-> NullCell, comments |-> NullCell],
      [text |-> Str(<<"o","k">>),
       likes |-> NullCell, shares |-> NullCell, comments |-> NullCell] }

\* All sequences over S of length n, and of length at most n.
SeqsOfLen(S, n) == [1..n -> S]

SeqsUpTo(S, n) == UNION { SeqsOfLen(S, k) : k \in 0..n }

\* ----------------------------------------------------------------- state
VARIABLES
    cfg,        \* the constructor's argument and the import flags
    use_gpt,    \* self.use_gpt
    sia,        \* self.sia is not None
    df,         \* the batch: a sequence of rows [text, likes, shares, comments]
    columns,    \* the engagement columns the batch has
    cols,       \* the columns process_all_data has added so far
    log,        \* per analyze_sentiment call: what it ran and what it was given
    call,       \* the analyze_sentiment call waiting for the backend
    pc,         \* where process_all_data is
    lx,         \* a text classifier applied to one text: [text, op, out],
                \* with the number of calls made and the first call's result
    ig,         \* the InsightsGenerator: self.insights and how the call ended
    frame       \* what else the batch is when process_all_data is called:
                \* the names of its text-like columns, the columns it has
                \* under the names of the added ones, which call it is

vars == << cfg, use_gpt, sia, df, columns, cols, log, call, pc, lx, ig, frame >>

NoCols ==
    [ primary_bank |-> << >>, all_banks_mentioned |-> << >>, prime_mentions |-> << >>,
      sentiment |-> << >>, polarity |-> << >>,
      emotion |-> << >>, emotion_keywords |-> << >>,
      category |-> << >>, category_reason |-> << >>,
      viral_score |-> << >> ]

IdleCall == [state |-> "idle", row |-> 0, base |-> [label |-> "Neutral", score |-> 0]]

IdleLex == [text |-> NaText, op |-> "idle", out |-> << >>, first |-> << >>, calls |-> 0]

\* InsightsGenerator.__init__: self.insights = {}; no call made yet.
\* insights is the one dictionary the object holds, to which every returned
\* reference points; first keeps what the first call returned, as it was
\* at that return.
NewGenerator ==
    [state |-> "new", insights |-> << >>, prime |-> << >>,
     calls |-> 0, first |-> << >>]

\* A batch as the ingestion hands it over: one column named text, no column
\* under the name of an added one, not processed before.  given maps the
\* names of such columns to their cells; lexicon keeps the compound scores
\* an earlier call's lexicon gave the rows.
NewFrame == [names |-> {"text"}, given |-> << >>, lexicon |-> << >>, pass |-> 1]

\* A text no classifier was applied to yet.
FreshLex(t) == [text |-> t, op |-> "none", out |-> << >>, first |-> << >>, calls |-> 0]

\* init_use_gpt without the test of OPENAI_AVAILABLE.
init_use_gpt_key_only(c) == c.openai_api_key \notin {"None", ""}

\* DataProcessor.__init__: self.use_gpt.
init_use_gpt(c) == c.openai_api_key \notin {"None", ""} /\ c.OPENAI_AVAILABLE

\* DataProcessor.__init__: self.sia is not None.
init_sia(c) == c.NLTK_AVAILABLE /\ c.SIA_CONSTRUCTS

Constructed(c) ==
    /\ cfg = c
    /\ use_gpt = init_use_gpt(c)
    /\ sia = init_sia(c)
    /\ cols = NoCols
    /\ log = << >>
    /\ call = IdleCall
    /\ pc = "start"

\* A processor with or without a backend, about to process a batch of at
\* most MaxRows rows.
Init ==
    /\ \E c \in BatchConfigs : Constructed(c)
    /\ df \in SeqsUpTo(BatchRows, MaxRows)
    /\ columns \in ColumnSets
    /\ lx = IdleLex
    /\ ig = NewGenerator
    /\ frame = NewFrame

\* A processor of any configuration about to process at most one row.
InitSent ==
    /\ \E c \in Configs : Constructed(c)
    /\ df \in { << >> } \cup
              { << [text |-> t, likes |-> Cell(3), shares |-> Cell(1), comments |-> NullCell] >> :
                    t \in SentTexts }
    /\ columns = {"likes", "shares", "comments"}
    /\ lx = IdleLex
    /\ ig = NewGenerator
    /\ frame = NewFrame

\* A processor without backend about to process a batch of one or two rows
\* that has any of the engagement columns.
InitViral ==
    /\ Constructed([openai_api_key |-> "None", OPENAI_AVAILABLE |-> TRUE,
                    NLTK_AVAILABLE |-> TRUE, SIA_CONSTRUCTS |-> TRUE])
    /\ df \in ViralBatches
    /\ columns \in SUBSET {"likes", "shares", "comments"}
    /\ lx = IdleLex
    /\ ig = NewGenerator
    /\ frame = NewFrame

\* A processor without backend and a new generator, about to process and
\* summarise a batch of at most MaxInsightRows rows.
InitInsights ==
    /\ Constructed([openai_api_key |-> "None", OPENAI_AVAILABLE |-> TRUE,
                    NLTK_AVAILABLE |-> TRUE, SIA_CONSTRUCTS |-> TRUE])
    /\ df \in SeqsUpTo(InsightRows, MaxInsightRows)
    /\ columns = {}
    /\ lx = IdleLex
    /\ ig = NewGenerator
    /\ frame = NewFrame

\* One text about to be classified.
InitLex ==
    /\ Constructed([openai_api_key |-> "None", OPENAI_AVAILABLE |-> FALSE,
                    NLTK_AVAILABLE |-> TRUE, SIA_CONSTRUCTS |-> TRUE])
    /\ df = << >>
    /\ columns = {}
    /\ lx \in { FreshLex(t) : t \in LexTexts }
    /\ ig = NewGenerator
    /\ frame = NewFrame

\* One text about to be given to the emotion or the category classifier.
InitClass ==
    /\ Constructed([openai_api_key |-> "None", OPENAI_AVAILABLE |-> FALSE,
                    NLTK_AVAILABLE |-> TRUE, SIA_CONSTRUCTS |-> TRUE])
    /\ df = << >>
    /\ columns = {}
    /\ lx \in { FreshLex(t) : t \in ClassTexts }
    /\ ig = NewGenerator
    /\ frame = NewFrame

\* ------------------------------------------------------- process_all_data
N == Len(df)

\* if df.empty: return df
ReturnEmpty ==
    /\ pc = "start"
    /\ N = 0
    /\ pc' = "done"
    /\ UNCHANGED << frame, ig, cfg, use_gpt, sia, df, columns, cols, log, call, lx >>

\* Line 222: the column names taken for the text, in the order tried.
text_columns ==
    << "text", "content", "message", "review", "comment", "post",
       "Text", "Content", "Post", "Review Text" >>

\* Lines 222-227: the first name of text_columns the batch has a column
\* of, or None.
find_text_col(names) ==
    LET found == { k \in 1..Len(text_columns) : text_columns[k] \in names }
    IN  IF found = {} THEN "None"
        ELSE text_columns[CHOOSE k \in found : \A j \in found : k <= j]

\* Lines 233-234: df.rename(columns={text_col: 'text'}, inplace=True).
rename(names, text_col) ==
    IF text_col # "text" THEN (names \ {text_col}) \cup {"text"} ELSE names

\* Lines 229-231: no text column; an empty table with the batch's columns
\* is returned and the batch is left as it was.
ReturnNoTextColumn ==
    /\ pc = "start"
    /\ N > 0
    /\ find_text_col(frame.names) = "None"
    /\ pc' = "no_text"
    /\ UNCHANGED << frame, ig, cfg, use_gpt, sia, df, columns, cols, log, call, lx >>

\* Lines 222-236: the text column is found and renamed, then
\* df[['primary_bank', 'all_banks_mentioned']] = df['text'].apply(identify_bank)
ApplyIdentifyBank ==
    /\ pc = "start"
    /\ N > 0
    /\ find_text_col(frame.names) # "None"
    /\ frame' = [frame EXCEPT !.names = rename(@, find_text_col(@))]
    /\ LET r == [i \in 1..N |-> identify_bank(df[i].text)]
       IN  cols' = [cols EXCEPT
               !.primary_bank = [i \in 1..N |-> r[i].primary],
               !.all_banks_mentioned = [i \in 1..N |-> r[i].banks]]
    /\ pc' = "count"
    /\ UNCHANGED << ig, cfg, use_gpt, sia, df, columns, log, call, lx >>

\* df['prime_mentions'] = df['text'].apply(count_bank_mentions(x, 'prime_bank'))
ApplyCountMentions ==
    /\ pc = "count"
    /\ cols' = [cols EXCEPT
           !.prime_mentions = [i \in 1..N |-> count_bank_mentions(df[i].text, "prime_bank")]]
    /\ pc' = "sentiment"
    /\ UNCHANGED << frame, ig, cfg, use_gpt, sia, df, columns, log, call, lx >>

\* The row the sentiment column's apply is at.
NextRow == Len(cols.sentiment) + 1

\* analyze_sentiment returns r: the row's cells of the two columns.
Returned(r) ==
    cols' = [cols EXCEPT !.sentiment = Append(@, r.label),
                         !.polarity = Append(@, r.score)]

\* IsBlank without the strip().
IsBlank_no_strip(text) == text.na \/ text.s = << >>

\* if pd.isna(text) or str(text).strip() == ''
IsBlank(text) == text.na \/ StripIsEmpty(text.s)

\* analyze_sentiment(text) for a missing or blank text: lines 126-127.
AnalyzeBlank ==
    /\ pc = "sentiment" /\ call.state = "idle" /\ NextRow <= N
    /\ IsBlank(df[NextRow].text)
    /\ Returned([label |-> "Neutral", score |-> 0])
    /\ log' = Append(log, [vader |-> FALSE, compound |-> 0, trigger |-> FALSE,
                           called |-> FALSE, reply |-> NoReply])
    /\ UNCHANGED << frame, ig, cfg, use_gpt, sia, df, columns, call, pc, lx >>

\* analyze_sentiment(text) when step 2 is not entered: lines 129-147, 173.
\* C: the compound scores the lexicon scorer may give the text.
AnalyzeLocal(C) ==
    /\ pc = "sentiment" /\ call.state = "idle" /\ NextRow <= N
    /\ ~IsBlank(df[NextRow].text)
    /\ \E c \in (IF sia THEN C ELSE {0}) :
           LET base == Baseline(sia, c)
           IN  /\ ~gpt_triggered(use_gpt, df[NextRow].text.s, base)
               /\ Returned(base)
               /\ log' = Append(log, [vader |-> sia, compound |-> c, trigger |-> TRUE,
                                      called |-> FALSE, reply |-> NoReply])
    /\ UNCHANGED << frame, ig, cfg, use_gpt, sia, df, columns, call, pc, lx >>

\* analyze_sentiment(text) up to the backend call of line 158.
AnalyzeRequest(C) ==
    /\ pc = "sentiment" /\ call.state = "idle" /\ NextRow <= N
    /\ ~IsBlank(df[NextRow].text)
    /\ \E c \in (IF sia THEN C ELSE {0}) :
           LET base == Baseline(sia, c)
           IN  /\ gpt_triggered(use_gpt, df[NextRow].text.s, base)
               /\ call' = [state |-> "waiting", row |-> NextRow, base |-> base]
               /\ log' = Append(log, [vader |-> sia, compound |-> c, trigger |-> TRUE,
                                      called |-> TRUE, reply |-> NoReply])
    /\ UNCHANGED << frame, ig, cfg, use_gpt, sia, df, columns, cols, pc, lx >>

\* The backend call ends (it returns or raises) and analyze_sentiment
\* returns: lines 164-170.  R: the ways the call may end.  Nothing in the
\* code ends a call the backend does not end.
BackendReturns(R) ==
    /\ pc = "sentiment" /\ call.state = "waiting"
    /\ \E reply \in R :
           /\ Returned(gpt_result(reply, call.base))
           /\ log' = [log EXCEPT ![call.row].reply = reply]
    /\ call' = IdleCall
    /\ UNCHANGED << frame, ig, cfg, use_gpt, sia, df, columns, pc, lx >>

\* The sentiment column is complete.
SentimentDone ==
    /\ pc = "sentiment" /\ call.state = "idle" /\ NextRow > N
    /\ pc' = "emotion"
    /\ UNCHANGED << frame, ig, cfg, use_gpt, sia, df, columns, cols, log, call, lx >>

\* df[['emotion', 'emotion_keywords']] = df['text'].apply(detect_emotion)
ApplyDetectEmotion ==
    /\ pc = "emotion"
    /\ LET r == [i \in 1..N |-> detect_emotion(df[i].text)]
       IN  cols' = [cols EXCEPT
               !.emotion = [i \in 1..N |-> r[i].emotion],
               !.emotion_keywords = [i \in 1..N |-> r[i].keywords]]
    /\ pc' = "category"
    /\ UNCHANGED << frame, ig, cfg, use_gpt, sia, df, columns, log, call, lx >>

\* df[['category', 'category_reason']] = df['text'].apply(categorize_post)
ApplyCategorizePost ==
    /\ pc = "category"
    /\ LET r == [i \in 1..N |-> categorize_post(df[i].text)]
       IN  cols' = [cols EXCEPT
               !.category = [i \in 1..N |-> r[i].category],
               !.category_reason = [i \in 1..N |-> r[i].reason]]
    /\ pc' = "viral"
    /\ UNCHANGED << frame, ig, cfg, use_gpt, sia, df, columns, log, call, lx >>

\* The cell of row i in the viral_score column the batch came with; 0
\* when it came without one.
GivenScore(i) ==
    IF "viral_score" \in DOMAIN frame.given THEN frame.given.viral_score[i] ELSE 0

\* ComputeViralScore with fillna(0, inplace=True) on the likes column.
ComputeViralScore_fillna_inplace ==
    /\ pc = "viral"
    /\ cols' = [cols EXCEPT
           !.viral_score = [i \in 1..N |->
               viral_boost(viral_reset(GivenScore(i)) + viral_base(columns, df[i]),
                           cols.prime_mentions[i])]]
    /\ df' = [i \in 1..N |->
                 IF "likes" \in columns
                 THEN [df[i] EXCEPT !.likes = Cell(fillna0(@))] ELSE df[i]]
    /\ pc' = "done"
    /\ UNCHANGED << frame, ig, cfg, use_gpt, sia, columns, log, call, lx >>

\* Lines 245-256: the viral_score column, and the return.
ComputeViralScore ==
    /\ pc = "viral"
    /\ cols' = [cols EXCEPT
           !.viral_score = [i \in 1..N |->
               viral_boost(viral_reset(GivenScore(i)) + viral_base(columns, df[i]),
                           cols.prime_mentions[i])]]
    /\ pc' = "done"
    /\ UNCHANGED << frame, ig, cfg, use_gpt, sia, df, columns, log, call, lx >>

\* The steps of process_all_data itself, given the lexicon's scores C.
ProgramStep(C) ==
    \/ ReturnEmpty
    \/ ApplyIdentifyBank
    \/ ApplyCountMentions
    \/ AnalyzeBlank
    \/ AnalyzeLocal(C)
    \/ AnalyzeRequest(C)
    \/ SentimentDone
    \/ ApplyDetectEmotion
    \/ ApplyCategorizePost
    \/ ComputeViralScore

Next == ProgramStep(BatchCompounds) \/ BackendReturns(BatchReplies)

NextSent == ProgramStep(Compounds) \/ BackendReturns(Replies)

Spec == Init /\ [][Next]_vars

SpecSent == InitSent /\ [][NextSent]_vars

\* process_all_data on a batch of non-blank texts without a backend: no
\* call is requested, and the lexicon scorer's result is not looked at.
NextViral ==
    \/ ApplyIdentifyBank
    \/ ApplyCountMentions
    \/ AnalyzeLocal({0})
    \/ SentimentDone
    \/ ApplyDetectEmotion
    \/ ApplyCategorizePost
    \/ ComputeViralScore

SpecViral == InitViral /\ [][NextViral]_vars

\* The table process_all_data returned: the batch with the added columns,
\* or the empty batch as it was given (line 219-220).
ProcessedRows ==
    [ i \in 1..N |->
          [text |-> df[i].text,
           primary_bank |-> cols.primary_bank[i],
           prime_mentions |-> cols.prime_mentions[i],
           sentiment |-> cols.sentiment[i],
           emotion |-> cols.emotion[i],
           emotion_keywords |-> cols.emotion_keywords[i],
           category |-> cols.category[i]] ]

ReturnedTable ==
    IF N = 0 THEN [has_cols |-> FALSE, rows |-> << >>]
    ELSE [has_cols |-> TRUE, rows |-> ProcessedRows]

\* The tables a caller may pass as prime_df: the table itself, its rows whose
\* primary bank is the brand, its rows that mention the brand.
PrimeTables(t) ==
    { t } \cup
    (IF t.has_cols
     THEN { [t EXCEPT !.rows = SelectSeq(t.rows, LAMBDA r : r.primary_bank = "prime_bank")],
            [t EXCEPT !.rows = SelectSeq(t.rows, LAMBDA r : r.prime_mentions > 0)] }
     ELSE {})

\* GenerateAllInsights lower-casing the text column of df in place.
GenerateAllInsights_lowercasing ==
    /\ pc = "done"
    /\ ig.state = "new"
    /\ \E prime_df \in PrimeTables(ReturnedTable) :
           \E top \in (IF Len(prime_df.rows) = 0 THEN {"None"}
                       ELSE TopLabels(prime_df.rows, "emotion")) :
               LET r == generate_all_insights(ig.insights, ReturnedTable, prime_df, top)
               IN  ig' = [state |-> r.state, insights |-> r.insights,
                          prime |-> prime_df.rows, calls |-> 1,
                          first |-> IF r.state = "returned"
                                    THEN [insights |-> r.insights,
                                          prime |-> prime_df.rows]
                                    ELSE << >>]
    /\ df' = [i \in 1..N |-> [df[i] EXCEPT !.text.s = str_lower(@)]]
    /\ UNCHANGED << frame, cfg, use_gpt, sia, columns, cols, log, call, pc, lx >>

\* generate_all_insights(df, prime_df) on the table process_all_data
\* returned; it returns self.insights or raises.  prime keeps the rows of
\* prime_df as they are after the call; no helper writes to a table.
GenerateAllInsights ==
    /\ pc = "done"
    /\ ig.state = "new"
    /\ \E prime_df \in PrimeTables(ReturnedTable) :
           \E top \in (IF Len(prime_df.rows) = 0 THEN {"None"}
                       ELSE TopLabels(prime_df.rows, "emotion")) :
               LET r == generate_all_insights(ig.insights, ReturnedTable, prime_df, top)
               IN  ig' = [state |-> r.state, insights |-> r.insights,
                          prime |-> prime_df.rows, calls |-> 1,
                          first |-> IF r.state = "returned"
                                    THEN [insights |-> r.insights,
                                          prime |-> prime_df.rows]
                                    ELSE << >>]
    /\ UNCHANGED << frame, cfg, use_gpt, sia, df, columns, cols, log, call, pc, lx >>

\* A second generate_all_insights call on the same generator, with another
\* prime_df: lines 16-37 assign the keys of the dictionary of the first
\* call, and line 39 returns that dictionary again.
GenerateAllInsightsAgain ==
    /\ pc = "done"
    /\ ig.state = "returned"
    /\ ig.calls = 1
    /\ \E prime_df \in PrimeTables(ReturnedTable) :
           /\ prime_df.rows # ig.prime
           /\ \E top \in (IF Len(prime_df.rows) = 0 THEN {"None"}
                          ELSE TopLabels(prime_df.rows, "emotion")) :
                  LET r == generate_all_insights(ig.insights, ReturnedTable, prime_df, top)
                  IN  ig' = [ig EXCEPT !.state = r.state, !.insights = r.insights,
                                       !.prime = prime_df.rows, !.calls = 2]
    /\ UNCHANGED << frame, cfg, use_gpt, sia, df, columns, cols, log, call, pc, lx >>

\* process_all_data without a backend on non-blank texts, and then
\* generate_all_insights on its result.
NextInsights ==
    \/ ReturnEmpty
    \/ ApplyIdentifyBank
    \/ ApplyCountMentions
    \/ AnalyzeLocal(BatchCompounds)
    \/ SentimentDone
    \/ ApplyDetectEmotion
    \/ ApplyCategorizePost
    \/ ComputeViralScore
    \/ GenerateAllInsights

SpecInsights == InitInsights /\ [][NextInsights]_vars

\* The same on a batch of at most MaxRows rows, with a second call of
\* generate_all_insights on the generator.
InitInsightsTwice ==
    /\ Constructed([openai_api_key |-> "None", OPENAI_AVAILABLE |-> TRUE,
                    NLTK_AVAILABLE |-> TRUE, SIA_CONSTRUCTS |-> TRUE])
    /\ df \in SeqsUpTo(InsightRows, MaxRows)
    /\ columns = {}
    /\ lx = IdleLex
    /\ ig = NewGenerator
    /\ frame = NewFrame

NextInsightsTwice ==
    \/ NextInsights
    \/ GenerateAllInsightsAgain

SpecInsightsTwice == InitInsightsTwice /\ [][NextInsightsTwice]_vars

\* ------------------------------------ process_all_data and its column names
\* The rows of the column-name specification: one that mentions the brand
\* and has likes, one that does not and has shares and no likes.
FrameRows ==
    { [text |-> Str(<<"P","r","i","m","e"," ","b",".">>),
       likes |-> Cell(3), shares |-> Cell(0), comments |-> NullCell],
      [text |-> Str(<<"o","k">>),
       likes |-> NullCell, shares |-> Cell(3), comments |-> Cell(0)] }

\* The names the text-like columns of a batch may have: body is not in
\* text_columns.
FrameNames == { {"text"}, {"content"}, {"Review Text", "comment"}, {"body"} }

\* The extra columns a batch of n rows may come with: a location, and
\* possibly a column of the caller's own named category.
FrameGiven(n) ==
    LET location == "location" :> [i \in 1..n |-> "Dhaka"]
    IN  { location, location @@ ("category" :> [i \in 1..n |-> "Loans"]) }

\* A processor without backend about to process a batch of at most MaxRows
\* rows whose text column has any of FrameNames.
InitFrame ==
    /\ Constructed([openai_api_key |-> "None", OPENAI_AVAILABLE |-> TRUE,
                    NLTK_AVAILABLE |-> TRUE, SIA_CONSTRUCTS |-> TRUE])
    /\ df \in SeqsUpTo(FrameRows, MaxRows)
    /\ columns \in { {}, {"likes", "shares", "comments"} }
    /\ lx = IdleLex
    /\ ig = NewGenerator
    /\ \E names \in FrameNames, given \in FrameGiven(Len(df)) :
           frame = [NewFrame EXCEPT !.names = names, !.given = given]

\* The compound scores the lexicon may give the row the sentiment column
\* is at: the lexicon gives a text the same score in every call.
PassCompounds ==
    IF frame.lexicon = << >> THEN BatchCompounds ELSE { frame.lexicon[NextRow] }

\* process_all_data is called on the table it returned: the columns it
\* added are now columns the batch comes with.
ProcessAgain ==
    /\ pc = "done"
    /\ N > 0
    /\ call.state = "idle"
    /\ frame.pass < MaxPasses
    /\ frame' = [frame EXCEPT !.given = cols @@ @,
                              !.lexicon = [i \in 1..N |-> log[i].compound],
                              !.pass = @ + 1]
    /\ cols' = NoCols
    /\ log' = << >>
    /\ pc' = "start"
    /\ UNCHANGED << ig, cfg, use_gpt, sia, df, columns, call, lx >>

NextFrame ==
    \/ ReturnEmpty
    \/ ReturnNoTextColumn
    \/ ApplyIdentifyBank
    \/ ApplyCountMentions
    \/ AnalyzeLocal(PassCompounds)
    \/ SentimentDone
    \/ ApplyDetectEmotion
    \/ ApplyCategorizePost
    \/ ComputeViralScore
    \/ ProcessAgain

SpecFrame == InitFrame /\ [][NextFrame]_vars

\* The program takes its own steps; the backend owes no answer.
FairSpec == Spec /\ WF_vars(ProgramStep(BatchCompounds))

\* ------------------------------------------------- the text classifiers
LexIdentifyBank ==
    /\ lx.op = "none"
    /\ lx' = [lx EXCEPT !.op = "identify_bank", !.out = identify_bank(lx.text)]
    /\ UNCHANGED << frame, ig, cfg, use_gpt, sia, df, columns, cols, log, call, pc >>

LexCountMentions ==
    /\ lx.op = "none"
    /\ lx' = [lx EXCEPT !.op = "count_bank_mentions",
                        !.out = count_bank_mentions(lx.text, "prime_bank")]
    /\ UNCHANGED << frame, ig, cfg, use_gpt, sia, df, columns, cols, log, call, pc >>

\* Lines 236-237 on one text: count_bank_mentions applied to the text
\* identify_bank was applied to; first keeps identify_bank's result.
LexCountAfterIdentify ==
    /\ lx.op = "identify_bank"
    /\ lx' = [lx EXCEPT !.op = "identify_then_count",
                        !.first = lx.out,
                        !.out = count_bank_mentions(lx.text, "prime_bank")]
    /\ UNCHANGED << frame, ig, cfg, use_gpt, sia, df, columns, cols, log, call, pc >>

NextLex ==
    \/ LexIdentifyBank
    \/ LexCountMentions
    \/ LexCountAfterIdentify

SpecLex == InitLex /\ [][NextLex]_vars

\* A call of classifier op on lx.text that returns r; the first call's
\* result is kept beside the latest.
LexCall(op, r) ==
    /\ lx.op \in {"none", op}
    /\ lx.calls < MaxCalls
    /\ lx' = [lx EXCEPT !.op = op, !.out = r,
                        !.first = IF lx.calls = 0 THEN r ELSE @,
                        !.calls = @ + 1]
    /\ UNCHANGED << frame, ig, cfg, use_gpt, sia, df, columns, cols, log, call, pc >>

LexDetectEmotion == LexCall("detect_emotion", detect_emotion(lx.text))

LexCategorizePost == LexCall("categorize_post", categorize_post(lx.text))

NextClass ==
    \/ LexDetectEmotion
    \/ LexCategorizePost

SpecClass == InitClass /\ [][NextClass]_vars

\* ================================================================ claims
Labels == { "Positive", "Negative", "Neutral" }

\* The rows whose analyze_sentiment call has returned.
ReturnedRows == 1..Len(cols.sentiment)

\* What analyze_sentiment returned for row i.
Result(i) == [label |-> cols.sentiment[i], score |-> cols.polarity[i]]

\* The lexicon's result for row i, from the score the lexicon gave its text:
\* Positive from 0.05, Negative to -0.05, (Neutral, 0.0) without a lexicon.
LexiconResult(i) ==
    IF ~(cfg.NLTK_AVAILABLE /\ cfg.SIA_CONSTRUCTS) THEN [label |-> "Neutral", score |-> 0]
    ELSE [label |-> IF log[i].compound >= 500 THEN "Positive"
                    ELSE IF log[i].compound <= -500 THEN "Negative"
                    ELSE "Neutral",
          score |-> log[i].compound]

\* The processor was constructed with a backend.
BackendConfigured == cfg.openai_api_key = "sk-key" /\ cfg.OPENAI_AVAILABLE

\* A text that is missing, empty or only whitespace.
BlankText(text) == text.na \/ \A k \in 1..Len(text.s) : text.s[k] \in {" ", "\t", "\n"}

\* The call raised, or its answer cannot be read: no JSON, no object, or a
\* polarity that is no number.
CallFailed(reply) ==
    \/ reply.kind \in {"error", "text", "nonobject"}
    \/ /\ reply.kind = "json"
       /\ reply.payload.has_p
       /\ reply.payload.p.t \in {"badstr", "null"}

\* A JSON object that lacks one of the two keys.
IncompletePayload(reply) ==
    reply.kind = "json" /\ (~reply.payload.has_s \/ ~reply.payload.has_p)

\* A JSON object with both keys and a numeric polarity.
CompletePayload(reply) ==
    /\ reply.kind = "json"
    /\ reply.payload.has_s /\ reply.payload.has_p
    /\ reply.payload.p.t \in {"num", "numstr"}

\* C1 (as claimed): whatever the backend does, every result of
\* analyze_sentiment has a label in {Positive, Negative, Neutral} and a
\* score in [-1, 1].  The code returns the payload's values unchecked.
C1_LabelAndScoreInRange ==
    \A i \in ReturnedRows :
        Result(i).label \in Labels /\ Result(i).score \in -10000..10000

\* C2: when the backend was called for a row and the call failed (it raised,
\* the answer was unparsable, or the polarity was no number),
\* analyze_sentiment returned exactly the lexicon's label and score.
C2_FailureRetainsBaseline ==
    \A i \in ReturnedRows :
        (log[i].called /\ CallFailed(log[i].reply)) => Result(i) = LexiconResult(i)

\* C2 witness: a failed call on a row whose lexicon result is Negative.
C2_Witness ==
    \E i \in ReturnedRows :
        /\ log[i].called /\ CallFailed(log[i].reply)
        /\ log[i].reply.kind = "json"
        /\ Result(i).label = "Negative"

\* C3: with a backend configured, the backend is called for a non-blank text
\* exactly when the text holds a complaint keyword or the lexicon's label is
\* Neutral; a call answered with a complete payload returns the payload's
\* label and polarity; with no call the lexicon's result is returned.
C3_TriggerAndReplace ==
    BackendConfigured =>
        \A i \in 1..Len(log) :
            ~BlankText(df[i].text) =>
                /\ log[i].called <=>
                       (AnyIn(complaint_words, str_lower(df[i].text.s))
                            \/ LexiconResult(i).label = "Neutral")
                /\ (i \in ReturnedRows /\ log[i].called /\ CompletePayload(log[i].reply))
                       => Result(i) = [label |-> log[i].reply.payload.s,
                                       score |-> log[i].reply.payload.p.v]
                /\ (i \in ReturnedRows /\ ~log[i].called) => Result(i) = LexiconResult(i)

\* C3 witness: a text without complaint keyword whose lexicon label is
\* Neutral was adjudicated and holds the backend's Negative result, which
\* is not the lexicon's.
C3_Witness ==
    \E i \in ReturnedRows :
        /\ BackendConfigured
        /\ ~AnyIn(complaint_words, str_lower(df[i].text.s))
        /\ log[i].called /\ CompletePayload(log[i].reply)
        /\ Result(i).label = "Negative" /\ LexiconResult(i).label = "Neutral"

\* C4: without a backend (no key, an empty key, or no client library) no
\* call is made for any text and the lexicon's result is returned.
C4_NoBackendNoCall ==
    ~BackendConfigured =>
        /\ call.state = "idle"
        /\ \A i \in 1..Len(log) : ~log[i].called
        /\ \A i \in ReturnedRows :
               ~BlankText(df[i].text) => Result(i) = LexiconResult(i)

\* C4 witness: a key is given but the client library is missing, and a text
\* with a complaint keyword got its (Positive) lexicon result.
C4_Witness ==
    \E i \in ReturnedRows :
        /\ cfg.openai_api_key = "sk-key" /\ ~cfg.OPENAI_AVAILABLE
        /\ AnyIn(complaint_words, str_lower(df[i].text.s))
        /\ Result(i).label = "Positive"

\* C5: for a missing, empty or whitespace-only text analyze_sentiment
\* returns (Neutral, 0.0) and runs neither the lexicon scorer nor the trigger
\* test nor the backend, with or without a backend.
C5_BlankIsNeutral ==
    \A i \in 1..Len(log) :
        BlankText(df[i].text) =>
            /\ ~log[i].vader /\ ~log[i].trigger /\ ~log[i].called
            /\ i \in ReturnedRows
            /\ Result(i) = [label |-> "Neutral", score |-> 0]

\* C5 witness: a whitespace-only text processed with a backend configured
\* and a lexicon at hand.
C5_Witness ==
    /\ BackendConfigured /\ cfg.NLTK_AVAILABLE /\ cfg.SIA_CONSTRUCTS
    /\ \E i \in ReturnedRows : ~df[i].text.na /\ Len(df[i].text.s) > 0 /\ BlankText(df[i].text)

\* C6 (as claimed): a JSON answer that lacks "sentiment" or "polarity" is a
\* failed adjudication, and the lexicon's result is returned.  The code fills
\* the missing key with a default and returns the mixture.
C6_IncompleteIsFailure ==
    \A i \in ReturnedRows :
        (log[i].called /\ IncompletePayload(log[i].reply)) => Result(i) = LexiconResult(i)

\* C7 (as claimed): every batch is eventually processed to the end, also
\* when the backend does not answer a call.  The code sets no timeout.
C7_BatchEventuallyDone == <>(pc = "done")

\* C8 (as claimed): a row whose backend call failed (it raised, or its
\* payload is malformed: unreadable or lacking a key) holds its lexicon
\* result; every other row holds what it gets when no call fails; and no
\* failure stops the batch.
C8_FailureIsLocal ==
    /\ \A i \in ReturnedRows :
          IF log[i].called /\ (CallFailed(log[i].reply) \/ IncompletePayload(log[i].reply))
          THEN Result(i) = LexiconResult(i)
          ELSE IF log[i].called
               THEN Result(i) = [label |-> log[i].reply.payload.s,
                                 score |-> log[i].reply.payload.p.v]
               ELSE BlankText(df[i].text) \/ Result(i) = LexiconResult(i)
    /\ use_gpt = BackendConfigured
    /\ (pc # "done" /\ call.state = "idle") => ENABLED Next

\* C9: identify_bank returns 'none' with an empty list when no entity's
\* patterns match (and for a missing or empty text), the entity when exactly
\* one matches, 'multiple' when two or more match; the list holds each
\* matching entity once.
MatchingEntities(text) ==
    IF text.na THEN {}
    ELSE { b \in Banks :
             \E k \in 1..Len(bank_patterns(b)) :
                 re_search(bank_patterns(b)[k], str_lower(text.s)) }

C9_IdentifyBank ==
    lx.op = "identify_bank" =>
        LET M == MatchingEntities(lx.text)
        IN  /\ M = {} => lx.out = [primary |-> "none", banks |-> << >>]
            /\ Cardinality(M) = 1 => /\ lx.out.primary \in M
                                     /\ lx.out.banks = << lx.out.primary >>
            /\ Cardinality(M) >= 2 => lx.out.primary = "multiple"
            /\ Len(lx.out.banks) = Cardinality(M)
            /\ { lx.out.banks[k] : k \in 1..Len(lx.out.banks) } = M
            /\ (lx.text.na \/ lx.text.s = << >>) => M = {}

\* C9 witnesses: a text naming the brand alone (by two of its patterns), and
\* a text naming two entities.
C9_Witness ==
    /\ lx.op = "identify_bank"
    /\ lx.out.primary = "prime_bank"
    /\ re_search(bank_patterns("prime_bank")[1], str_lower(lx.text.s))
    /\ re_search(bank_patterns("prime_bank")[4], str_lower(lx.text.s))

C9_WitnessMultiple ==
    lx.op = "identify_bank" /\ lx.out.primary = "multiple" /\ Len(lx.out.banks) = 2

\* C10 (as claimed): on every row, prime_mentions = 0 only when primary_bank
\* is 'none'.
C10_ZeroOnlyWhenNone ==
    \A i \in 1..Len(cols.prime_mentions) :
        cols.prime_mentions[i] = 0 => cols.primary_bank[i] = "none"

\* C10 (amended): on every row, prime_mentions = 0 only when the brand of
\* interest is not among the banks the row mentions: primary_bank is then
\* 'none', a competitor, or 'multiple' over competitors, never 'prime_bank'.
C10_ZeroOnlyWithoutBrand ==
    \A i \in 1..Len(cols.prime_mentions) :
        cols.prime_mentions[i] = 0 =>
            /\ cols.primary_bank[i] # "prime_bank"
            /\ \A k \in 1..Len(cols.all_banks_mentioned[i]) :
                   cols.all_banks_mentioned[i][k] # "prime_bank"

\* C10 witness: a finished batch with a competitor's row (no brand mention)
\* and a row that mentions the brand beside a competitor.
C10_Witness ==
    /\ pc = "done"
    /\ \E i \in 1..N : cols.prime_mentions[i] = 0 /\ cols.primary_bank[i] = "eastern_bank"
    /\ \E i \in 1..N : cols.prime_mentions[i] > 0 /\ cols.primary_bank[i] = "multiple"

\* The number of places of s at which word occurs.
Occurrences(s, word) ==
    Cardinality({ i \in 1..(Len(s) - Len(word) + 1) :
                    \A j \in 1..Len(word) : s[i + j - 1] = word[j] })

\* The brand of interest is written exactly once in the text: its name
\* occurs at one place, and there it is a mention of the brand.
BrandWrittenOnce(text) ==
    /\ ~text.na
    /\ Occurrences(str_lower(text.s), w_prime) = 1
    /\ "prime_bank" \in MatchingEntities(text)

\* C11 (as claimed): for a text in which the brand is written exactly once,
\* count_bank_mentions returns 1, also when several patterns of the brand
\* match that one occurrence.  The code adds the matches of every pattern.
C11_OneOccurrenceCountsOnce ==
    (lx.op = "count_bank_mentions" /\ BrandWrittenOnce(lx.text)) => lx.out = 1

\* The order of the category rules, and whether a text matches a rule.
CategoryOrder == << "Inquiry", "Complaint", "Praise", "Suggestion", "Other" >>

RuleMatches(category, text) ==
    CASE category = "Other" -> TRUE
      [] text.na -> FALSE
      [] category = "Inquiry" ->
             \/ Occurrences(str_lower(text.s), <<"?">>) > 0
             \/ \E k \in 1..Len(inquiry_phrases) :
                    Occurrences(str_lower(text.s), inquiry_phrases[k]) > 0
      [] category = "Complaint" ->
             \E k \in 1..Len(complaint_category_words) :
                 Occurrences(str_lower(text.s), complaint_category_words[k]) > 0
      [] category = "Praise" ->
             \E k \in 1..Len(praise_words) :
                 Occurrences(str_lower(text.s), praise_words[k]) > 0
      [] OTHER ->
             \E k \in 1..Len(suggestion_words) :
                 Occurrences(str_lower(text.s), suggestion_words[k]) > 0

\* C12: categorize_post gives every text exactly one category of Inquiry,
\* Complaint, Praise, Suggestion, Other: the earliest rule, in that order,
\* that the text matches; Other when it matches none of the first four.
C12_FirstMatchingRule ==
    lx.op = "categorize_post" =>
        \E k \in 1..Len(CategoryOrder) :
            /\ lx.out.category = CategoryOrder[k]
            /\ RuleMatches(CategoryOrder[k], lx.text)
            /\ \A j \in 1..(k - 1) : ~RuleMatches(CategoryOrder[j], lx.text)

\* C12 witness: a text with a question mark and a complaint keyword (and a
\* praise keyword too) was categorized Inquiry.
C12_Witness ==
    /\ lx.op = "categorize_post"
    /\ lx.out.category = "Inquiry"
    /\ Occurrences(str_lower(lx.text.s), <<"?">>) > 0
    /\ RuleMatches("Complaint", lx.text)
    /\ RuleMatches("Praise", lx.text)

\* The number of keywords of an emotion category that occur in a text.
KeywordCount(emotion, text) ==
    IF text.na THEN 0
    ELSE Cardinality({ k \in 1..Len(emotion_keywords(emotion)) :
                         Occurrences(str_lower(text.s), emotion_keywords(emotion)[k]) > 0 })

\* The place of an emotion category in the order Joy, Frustration,
\* Confusion, Anxiety.
Priority(emotion) == CHOOSE i \in 1..Len(EmotionOrder) : EmotionOrder[i] = emotion

\* C13: detect_emotion returns the emotion category with the most matched
\* keywords; among categories tied at the highest non-zero count it returns
\* the earliest of Joy, Frustration, Confusion, Anxiety; and a repeated call
\* on the same text returns what the first call returned.
C13_HighestCountEarliestWins ==
    lx.op = "detect_emotion" =>
        /\ lx.out = lx.first
        /\ (\E i \in 1..Len(EmotionOrder) : KeywordCount(EmotionOrder[i], lx.text) > 0) =>
               /\ lx.out.emotion \in { EmotionOrder[i] : i \in 1..Len(EmotionOrder) }
               /\ \A i \in 1..Len(EmotionOrder) :
                      /\ KeywordCount(EmotionOrder[i], lx.text)
                             <= KeywordCount(lx.out.emotion, lx.text)
                      /\ i < Priority(lx.out.emotion) =>
                             KeywordCount(EmotionOrder[i], lx.text)
                                 < KeywordCount(lx.out.emotion, lx.text)

\* C13 witness: a second call on a text in which Frustration and Anxiety tie
\* at one keyword each (and Joy has none) returned Frustration.
C13_Witness ==
    /\ lx.op = "detect_emotion" /\ lx.calls = 2
    /\ lx.out.emotion = "Frustration"
    /\ KeywordCount("Joy", lx.text) = 0
    /\ KeywordCount("Frustration", lx.text) = 1
    /\ KeywordCount("Anxiety", lx.text) = 1

\* C14: detect_emotion returns Neutral with an empty keyword list exactly
\* when no keyword of any of the four categories occurs in the text (a
\* missing text included); otherwise it returns one of the four emotions and
\* a non-empty list holding only keywords of that emotion.
C14_NeutralIffNoKeyword ==
    lx.op = "detect_emotion" =>
        LET none == \A i \in 1..Len(EmotionOrder) : KeywordCount(EmotionOrder[i], lx.text) = 0
        IN  /\ none <=> lx.out.emotion = "Neutral"
            /\ lx.out.emotion = "Neutral" => lx.out.keywords = << >>
            /\ lx.out.emotion # "Neutral" =>
                   /\ lx.out.emotion \in { EmotionOrder[i] : i \in 1..Len(EmotionOrder) }
                   /\ lx.out.keywords # << >>
                   /\ \A k \in 1..Len(lx.out.keywords) :
                          /\ \E m \in 1..Len(emotion_keywords(lx.out.emotion)) :
                                 emotion_keywords(lx.out.emotion)[m] = lx.out.keywords[k]
                          /\ Occurrences(str_lower(lx.text.s), lx.out.keywords[k]) > 0

\* C14 witness: a text with keywords of two categories got the winner's
\* keywords only, fewer than the text holds in all.
C14_Witness ==
    /\ lx.op = "detect_emotion"
    /\ lx.out.emotion = "Joy"
    /\ Len(lx.out.keywords) = 2
    /\ KeywordCount("Confusion", lx.text) = 1

\* C14 witness of the Neutral side: a text that is not missing and holds no
\* keyword.
C14_WitnessNeutral ==
    /\ lx.op = "detect_emotion" /\ ~lx.text.na /\ Len(lx.text.s) > 0
    /\ lx.out.emotion = "Neutral"

\* A counter of row i as the claim reads it: 0 when the cell is null or the
\* batch has no such column.
Counter(i, col) ==
    IF col \notin columns THEN 0
    ELSE LET cell == CASE col = "likes" -> df[i].likes
                       [] col = "shares" -> df[i].shares
                       [] OTHER -> df[i].comments
         IN  IF cell.null THEN 0 ELSE cell.v

\* likes + 2*shares + 1.5*comments of row i, in 1/100.
Engagement(i) ==
    100 * Counter(i, "likes") + 200 * Counter(i, "shares") + 150 * Counter(i, "comments")

ScoredRows == 1..Len(cols.viral_score)

\* C15: process_all_data gives every row the score likes + 2*shares +
\* 1.5*comments, a null or absent counter counting 0, to which the brand
\* boost (factor 1.2) is then applied for the rows that mention the brand;
\* a batch without engagement columns gets 0 on every row, and the scoring
\* step is never stuck.
C15_ViralFormula ==
    /\ \A i \in ScoredRows :
           10 * cols.viral_score[i] =
               (IF cols.prime_mentions[i] > 0 THEN 12 ELSE 10) * Engagement(i)
    /\ columns = {} => \A i \in ScoredRows : cols.viral_score[i] = 0
    /\ pc = "viral" => ENABLED ComputeViralScore
    /\ pc = "done" => Len(cols.viral_score) = N

\* C15 witness: a batch with the likes and comments columns only, whose row
\* has a null like count, a non-zero share cell that does not count, and
\* comments, and mentions no brand: its score is 1.5 * 3 = 4.5.
C15_Witness ==
    /\ pc = "done"
    /\ columns = {"likes", "comments"}
    /\ \E i \in ScoredRows :
           /\ df[i].likes.null /\ df[i].shares = [null |-> FALSE, v |-> 3]
           /\ df[i].comments = [null |-> FALSE, v |-> 3]
           /\ cols.prime_mentions[i] = 0
           /\ cols.viral_score[i] = 450

\* C15 witness of a batch without engagement columns.
C15_WitnessNoColumns ==
    pc = "done" /\ columns = {} /\ N = 2 /\ cols.viral_score = << 0, 0 >>

\* Rows i and j have the same likes, shares and comments cells.
SameCounters(i, j) ==
    /\ df[i].likes = df[j].likes
    /\ df[i].shares = df[j].shares
    /\ df[i].comments = df[j].comments

\* C16: of two rows with identical likes, shares and comments, one with no
\* mention of the brand and one with a mention, the mentioning row's
\* viral_score is exactly 1.2 times the other's, whatever the number of
\* mentions.
C16_BoostIsOnePointTwo ==
    \A i, j \in ScoredRows :
        (SameCounters(i, j) /\ cols.prime_mentions[i] = 0 /\ cols.prime_mentions[j] > 0)
            => 10 * cols.viral_score[j] = 12 * cols.viral_score[i]

\* C16 witness: a row without mention scored 3 + 2*3 + 1.5*3 = 13.5 beside
\* a row with three mentions and the same counters, scored 16.2.
C16_Witness ==
    \E i, j \in ScoredRows :
        /\ SameCounters(i, j)
        /\ cols.prime_mentions[i] = 0 /\ cols.prime_mentions[j] = 3
        /\ cols.viral_score[i] = 1350 /\ cols.viral_score[j] = 1620

\* Rows i and j have the same text and the same counters but col, which is
\* not lower in row j.
RaisedIn(i, j, col) ==
    /\ df[i].text = df[j].text
    /\ \A c \in {"likes", "shares", "comments"} \ {col} : Counter(i, c) = Counter(j, c)
    /\ Counter(i, col) <= Counter(j, col)

\* C17: raising one non-negative counter of a row, the other two and the
\* text held fixed, never lowers its viral_score; and no viral_score is
\* negative.
C17_MonotoneNonNegative ==
    /\ \A i \in ScoredRows : cols.viral_score[i] >= 0
    /\ \A i, j \in ScoredRows :
           \A col \in {"likes", "shares", "comments"} :
               RaisedIn(i, j, col) => cols.viral_score[i] <= cols.viral_score[j]

\* C17 witness: two rows of one text that mention the brand and differ in
\* the shares alone, the one with more shares scoring more.
C17_Witness ==
    \E i, j \in ScoredRows :
        /\ RaisedIn(i, j, "shares")
        /\ Counter(i, "shares") < Counter(j, "shares")
        /\ cols.prime_mentions[i] > 0
        /\ cols.viral_score[i] < cols.viral_score[j]

\* The sum of the values of a function with a finite domain.
RECURSIVE SumOf(_)
SumOf(f) ==
    IF DOMAIN f = {} THEN 0
    ELSE LET k == CHOOSE k \in DOMAIN f : TRUE
         IN  f[k] + SumOf([j \in DOMAIN f \ {k} |-> f[j]])

\* generate_all_insights was called and came to an end (return or raise).
Called == ig.state # "new"

\* The summary of an axis is the "no data" summary: it has a summary string
\* and nothing else.
NoDataSummary(axis) ==
    /\ axis \in DOMAIN ig.insights
    /\ DOMAIN ig.insights[axis] = {"summary"}
    /\ ig.insights[axis].summary \in
           { "No Prime Bank posts found for sentiment analysis.",
             "No Prime Bank posts found for emotion analysis.",
             "No Prime Bank posts found for category analysis." }

\* C18 (as claimed): generate_all_insights called on the empty batch, as
\* process_all_data returns it for an empty input, returns without raising,
\* and its sentiment, emotion and category entries are "no data" summaries.
\* The comparison indexes df['primary_bank'], which that batch lacks.
C18_EmptyBatchNoData ==
    (Called /\ N = 0) =>
        /\ ig.state = "returned"
        /\ NoDataSummary("sentiment")
        /\ NoDataSummary("emotion")
        /\ NoDataSummary("category")

\* The numbers an axis reports as its label distribution, summed, in tenths
\* (a percentage p counts 10 * p): the percentages of the sentiment summary,
\* the emotion insight's distribution, the category summary's numbers.
ReportedSum(axis) ==
    CASE axis = "sentiment" -> SumOf(ig.insights.sentiment.summary)
      [] axis = "emotion" -> 10 * SumOf(ig.insights.emotion.distribution)
      [] OTHER -> 10 * SumOf(ig.insights.category.summary)

\* C19 (as claimed): for a non-empty batch the aggregator reports, for each
\* of the axes sentiment, emotion and category, the label distribution in
\* percentages of the batch, which sum to 100 up to the rounding to one
\* decimal.  The code reports row counts for emotion and category.
C19_PercentagesSumTo100 ==
    (ig.state = "returned" /\ Len(ig.prime) > 0) =>
        \A axis \in {"sentiment", "emotion", "category"} :
            ReportedSum(axis) \in 998..1002

\* The rows of the summarised batch that carry sentiment label l.
RowsWith(l) == { i \in 1..Len(ig.prime) : ig.prime[i].sentiment = l }

\* The k-th of them in batch order.
KthRowWith(l, k) ==
    CHOOSE i \in RowsWith(l) : Cardinality({ j \in RowsWith(l) : j < i }) = k - 1

\* C20: for each sentiment label the example list holds the first 2 texts
\* of the batch that carry the label, in batch order: min(2, rows with the
\* label) entries; the percentages of the summary depend on the numbers of
\* rows per label alone, not on the order of the rows.
C20_FirstExamplesInBatchOrder ==
    (ig.state = "returned" /\ Len(ig.prime) > 0) =>
        \A l \in {"Positive", "Negative", "Neutral"} :
            LET ex == ig.insights.sentiment.examples[l]
                n == Cardinality(RowsWith(l))
            IN  /\ Len(ex) = IF n < 2 THEN n ELSE 2
                /\ \A k \in 1..Len(ex) : ex[k] = ig.prime[KthRowWith(l, k)].text
                /\ 2 * Len(ig.prime) * ig.insights.sentiment.summary[l]
                       = 2000 * n + Len(ig.prime)
                         - ((2000 * n + Len(ig.prime)) % (2 * Len(ig.prime)))

\* C20 witness: three rows carry Negative, the third with another text than
\* the first; the examples are the texts of the first and the second.
C20_Witness ==
    /\ ig.state = "returned"
    /\ Len(ig.prime) = 3
    /\ \A i \in 1..3 : ig.prime[i].sentiment = "Negative"
    /\ ig.prime[3].text # ig.prime[1].text
    /\ ig.insights.sentiment.examples["Negative"]
           = << ig.prime[1].text, ig.prime[2].text >>

\* The score's side of the thresholds that a label stands for.
LabelFitsScore(r) ==
    /\ r.label = "Positive" => r.score >= 500
    /\ r.label = "Negative" => r.score <= -500
    /\ r.label = "Neutral" => (-500 < r.score /\ r.score < 500)

\* C27 (as claimed): every result of analyze_sentiment has a label that fits
\* its score under the thresholds 0.05 and -0.05, when the lexicon's result
\* is returned and when the backend's result replaces it.  The backend's
\* label and polarity are returned as they come.
C27_LabelFitsScore ==
    \A i \in ReturnedRows : LabelFitsScore(Result(i))

\* C28: identify_bank and count_bank_mentions agree on the brand: the count
\* is positive exactly when 'prime_bank' is among the mentioned banks; a
\* primary bank 'none' goes with count 0, 'prime_bank' with a positive count.
C28_CountAgreesWithIdentify ==
    lx.op = "identify_then_count" =>
        /\ lx.out > 0 <=>
               \E k \in 1..Len(lx.first.banks) : lx.first.banks[k] = "prime_bank"
        /\ lx.first.primary = "none" => lx.out = 0
        /\ lx.first.primary = "prime_bank" => lx.out > 0

\* C28 witness: a text that names the brand in a form only the last pattern
\* matches, beside a competitor: the primary bank is 'multiple', the count 1.
C28_Witness ==
    /\ lx.op = "identify_then_count"
    /\ lx.first.primary = "multiple"
    /\ lx.out = 1
    /\ ~re_search(bank_patterns("prime_bank")[1], str_lower(lx.text.s))

\* The call returned the insights of a batch with rows.
Summarised == ig.state = "returned" /\ Len(ig.prime) > 0

\* The number of rows of the summarised batch with emotion label l.
EmotionRows(l) == Cardinality({ i \in 1..Len(ig.prime) : ig.prime[i].emotion = l })

\* The fixed table of recommendations per dominant emotion.
RecommendationTable ==
    [ Joy |-> "Leverage positive emotions by encouraging happy customers to share testimonials",
      Frustration |-> "Implement rapid response protocol for frustrated customers to prevent escalation",
      Confusion |-> "Create clearer communication materials and improve customer education",
      Anxiety |-> "Provide reassurance through proactive communication about security and processes",
      Neutral |-> "Engage neutral customers with targeted campaigns to create" ]

\* C22: for a non-empty batch the dominant label top_emotion is a label no
\* other label has more rows than, and the emotion recommendation is the
\* table's entry for top_emotion.
C22_RecommendationOfDominant ==
    Summarised =>
        LET top == ig.insights.emotion.top_emotion
        IN  /\ EmotionRows(top) > 0
            /\ \A l \in {"Joy", "Frustration", "Confusion", "Anxiety", "Neutral"} :
                   EmotionRows(l) <= EmotionRows(top)
            /\ top \in DOMAIN RecommendationTable
            /\ ig.insights.emotion.recommendation = RecommendationTable[top]

\* C22 witness: Frustration has two rows and Neutral one; the recommendation
\* is the one for Frustration.
C22_Witness ==
    /\ Summarised
    /\ EmotionRows("Frustration") = 2 /\ EmotionRows("Neutral") = 1
    /\ ig.insights.emotion.top_emotion = "Frustration"
    /\ ig.insights.emotion.recommendation = RecommendationTable["Frustration"]

\* The rows of the summarised batch counted as immediate, and as quick wins.
ImmediateRows ==
    { i \in 1..Len(ig.prime) :
        /\ ig.prime[i].sentiment = "Negative"
        /\ ig.prime[i].emotion \in {"Frustration", "Anxiety"}
        /\ ig.prime[i].category = "Complaint" }

QuickWinRows ==
    { i \in 1..Len(ig.prime) :
        ig.prime[i].sentiment = "Positive" /\ ig.prime[i].category = "Praise" }

\* C30: in the action insights of a non-empty batch the immediate rows and
\* the quick wins are disjoint, their counts together do not exceed the
\* number of rows, and the immediate count does not exceed the number of
\* complaints the category insights report.
C30_ActionSetsDisjoint ==
    Summarised =>
        /\ ig.insights.actions.immediate = Cardinality(ImmediateRows)
        /\ ig.insights.actions.quick_wins = Cardinality(QuickWinRows)
        /\ ImmediateRows \cap QuickWinRows = {}
        /\ ig.insights.actions.immediate + ig.insights.actions.quick_wins <= Len(ig.prime)
        /\ ig.insights.actions.immediate <= ig.insights.category.urgent_attention

\* C30 witness: a batch with an immediate row, a quick win and a Negative
\* row that is neither.
C30_Witness ==
    /\ Summarised
    /\ ig.insights.actions.immediate = 1
    /\ ig.insights.actions.quick_wins = 1
    /\ \E i \in 1..Len(ig.prime) :
           ig.prime[i].sentiment = "Negative" /\ i \notin ImmediateRows

\* The product of the values of a function with a finite domain.
RECURSIVE ProductOf(_)
ProductOf(f) ==
    IF DOMAIN f = {} THEN 1
    ELSE LET k == CHOOSE k \in DOMAIN f : TRUE
         IN  f[k] * ProductOf([j \in DOMAIN f \ {k} |-> f[j]])

\* The brand's positive rate is strictly greater than the mean of the
\* positive rates of the other banks of the comparison bs (bank -> posts,
\* positive), compared without division.
AboveMeanOfOthers(bs) ==
    LET others == DOMAIN bs \ {"prime_bank"}
        D == ProductOf([b \in others |-> bs[b].posts])
    IN  Cardinality(others) * bs["prime_bank"].positive * D
            > bs["prime_bank"].posts
                  * SumOf([b \in others |-> bs[b].positive * (D \div bs[b].posts)])

\* C23 (as claimed): the comparison reports the brand as above when its
\* positive rate is strictly greater than the mean of the positive rates of
\* the other banks identified, and as below otherwise, equality included.
\* The code compares the brand's rate with 50.
C23_AboveMeansAboveOthers ==
    (/\ ig.state = "returned"
     /\ "comparison" \in DOMAIN ig.insights.comparison
     /\ DOMAIN ig.insights.comparison.comparison \ {"prime_bank"} # {})
        => (ig.insights.comparison.summary.comparison = "above average"
                <=> AboveMeanOfOthers(ig.insights.comparison.comparison))

\* The tokens of a text: its maximal runs of characters other than
\* whitespace, lower-cased.
RECURSIVE TokensFrom(_, _, _)
TokensFrom(s, i, word) ==
    IF i > Len(s) THEN (IF word = << >> THEN << >> ELSE << word >>)
    ELSE IF s[i] \in {" ", "\t", "\n"}
         THEN (IF word = << >> THEN << >> ELSE << word >>) \o TokensFrom(s, i + 1, << >>)
         ELSE TokensFrom(s, i + 1, Append(word, s[i]))

Tokens(text) == IF text.na THEN << >> ELSE TokensFrom(str_lower(text.s), 1, << >>)

\* No token of the text survives the filter: each is shorter than four
\* characters or is part of the brand's name.
NoTokenSurvives(text) ==
    \A k \in 1..Len(Tokens(text)) :
        \/ Len(Tokens(text)[k]) < 4
        \/ Tokens(text)[k] \in { <<"p","r","i","m","e">>, <<"b","a","n","k">> }

\* C21 (as claimed): for a label whose texts hold only stop-words and the
\* brand's name, the theme phrase the aggregator reports for the label is
\* "general topics".  The code derives themes for the Negative label only,
\* from four keyword pairs, and prints "various service issues" without one.
C21_GeneralTopicsSentinel ==
    (/\ Summarised
     /\ RowsWith("Negative") # {}
     /\ \A i \in RowsWith("Negative") : NoTokenSurvives(ig.prime[i].text))
        => ig.insights.sentiment.negative_theme = "general topics"

\* C26: generate_all_insights does not change its input tables: over a call
\* (returning or raising) the batch keeps its rows, columns and values, and
\* prime_df is after the call one of the tables that could be passed
\* before it.
C26_InputsNotMutated ==
    [][(ig.state = "new" /\ ig'.state # "new") =>
           /\ df' = df
           /\ cols' = cols
           /\ columns' = columns
           /\ ig'.prime \in { t.rows : t \in PrimeTables(ReturnedTable) }]_vars

\* C26 witness: a call returned on a batch of three rows with upper-case
\* letters in the texts, summarising the two rows that mention the brand.
C26_Witness ==
    /\ ig.state = "returned"
    /\ N = 3
    /\ Len(ig.prime) = 2
    /\ \A i \in 1..2 : ig.prime[i].text.s # str_lower(ig.prime[i].text.s)

\* C24: the structure the first generate_all_insights call returned still
\* describes the first batch after a second call on the same generator:
\* what the first returned reference shows is what it showed at its return.
C24_FirstResultKept ==
    (ig.calls = 2 /\ ig.first # << >>) => ig.insights = ig.first.insights

\* The columns the claims name among those process_all_data adds.
AddedColumns ==
    {"primary_bank", "prime_mentions", "sentiment", "polarity",
     "emotion", "category", "viral_score"}

\* Column c of the table as process_all_data returns it: a column it
\* assigned, or the column the batch came with.
ColumnAtReturn(c) == IF c \in DOMAIN cols THEN cols[c] ELSE frame.given[c]

\* The returned table has every added column, one cell per row.
Augmented == \A c \in AddedColumns : Len(cols[c]) = N

C29_Idempotent ==
    (pc = "done" /\ frame.pass > 1) =>
        \A c \in AddedColumns : cols[c] = frame.given[c]

\* C29 witness: a second call returned on a batch whose first row mentions
\* the brand and has 3 likes: its viral score is 3.6 again.
C29_Witness ==
    /\ pc = "done"
    /\ frame.pass = 2
    /\ N = 2
    /\ cols.prime_mentions[1] > 0
    /\ cols.viral_score[1] = 360
    /\ frame.given.viral_score[1] = 360
    /\ cols.viral_score[2] = 600

====
